---------------------------- MODULE Spec2Model ----------------------------
(***************************************************************************)
(* Host side of the SpMV benchmark (Ch8/SpMV/Spmv.c): the reference        *)
(* product spmvCpu, the verifier verifyResults, the padded row count of    *)
(* RunTest, and the benchmark control flow of RunTest, csrTest and         *)
(* ellPackTest; the ELLPACKR layout of ellPackTest, the random matrix of   *)
(* RunTest, and one call of csrTest or ellPackTest statement by statement  *)
(* (device objects, events and timings, results).                          *)
(*                                                                         *)
(* Arrays are functions over 0..n-1, as the C code indexes them.  A float  *)
(* is modelled by the integer it holds; arithmetic rounds to the 24 bit    *)
(* significand of IEEE single precision (RoundF), a quotient is kept as a  *)
(* tagged value so that x/0 and 0/0 are +Inf and NaN.                      *)
(***************************************************************************)
EXTENDS Integers, Sequences, FiniteSets, TLC

\* ------------------------------------------------------------------ bounds

\* verifyResults, on its own: longest vector compared
MaxSize == 2

\* spmvCpu, on its own: largest dimension and number of non-zeroes
MaxDim == 2
MaxNnz == 3

\* padded row count, on its own: largest row count and pad factor
MaxPadRows == 33
MaxPadFactor == 32

\* the ELLPACKR layout, on its own: most rows and non-zeroes of the matrix
MaxEllRows == 2
MaxEllNnz == 3

\* one call of csrTest or ellPackTest, on its own: largest values of the
\* options "passes" and "iterations"
MaxConfPasses == 2
MaxConfIters == 2

\* the random matrix, on its own: largest value of the argument nRows
MaxGenRows == 12

\* a run of RunTest: most rows of the matrix and largest values of the
\* options "passes" and "iterations"
MaxRows == 2
MaxPasses == 2
MaxIters == 2

\* ------------------------------------------------------- single precision

Abs(x) == IF x < 0 THEN -x ELSE x

\* 2^24: every integer of magnitude up to this is a float
FloatExact == 16777216

RECURSIVE Ulp(_)
\* spacing of the floats around magnitude a
Ulp(a) == IF a < FloatExact THEN 1 ELSE 2 * Ulp(a \div 2)

\* round to nearest float, ties to even
RoundF(x) ==
    LET a == Abs(x)
        u == Ulp(a)
        q == a \div u
        r == a % u
        n == IF 2 * r < u THEN q
             ELSE IF 2 * r > u THEN q + 1
             ELSE IF q % 2 = 0 THEN q ELSE q + 1
    IN  IF x < 0 THEN -(n * u) ELSE n * u

FAdd(a, b) == RoundF(a + b)
FSub(a, b) == RoundF(a - b)
FMul(a, b) == RoundF(a * b)

\* a / b in IEEE arithmetic for a >= 0: 0/0 is NaN, a/0 is +Inf
FDiv(a, b) ==
    IF b = 0
    THEN (IF a = 0 THEN [kind |-> "nan", num |-> 0, den |-> 0]
                   ELSE [kind |-> "inf", num |-> a, den |-> 0])
    ELSE [kind |-> "ratio", num |-> a, den |-> b]

\* MAX_RELATIVE_ERROR = 1e-10 = 1 / (TolDenHi * TolDenLo)
TolDenHi == 100000
TolDenLo == 100000

\* mutant of GtTol: the test written as !(q <= MAX_RELATIVE_ERROR), which
\* is true of a NaN
GtTol_NotLe(q) ==
    CASE q.kind = "nan" -> TRUE
      [] q.kind = "inf" -> TRUE
      [] OTHER -> /\ q.den > 0
                  /\ q.num > (q.den \div TolDenHi) \div TolDenLo

\* q > MAX_RELATIVE_ERROR: false of a NaN, true of +Inf; num/den > 1/10^10
\* iff num > floor(den / 10^10) for den > 0, and never for den < 0 (the
\* quotient is then <= 0)
GtTol(q) ==
    CASE q.kind = "nan" -> FALSE
      [] q.kind = "inf" -> TRUE
      [] OTHER -> /\ q.den > 0
                  /\ q.num > (q.den \div TolDenHi) \div TolDenLo

\* mutant of RelativeError: the difference written as a sum
RelativeError_Sum(ref, dev) == FDiv(Abs(FAdd(ref, dev)), ref)

\* fabs(cpuResults[i] - gpuResults[i]) / cpuResults[i]
RelativeError(ref, dev) == FDiv(Abs(FSub(ref, dev)), ref)

\* the condition of the if in the loop of verifyResults
Mismatch(ref, dev) == GtTol(RelativeError(ref, dev))

\* one turn of the loop of verifyResults: the new value of passed
verifyStep(passed, cpuResults, gpuResults, i) ==
    IF Mismatch(cpuResults[i], gpuResults[i]) THEN 0 ELSE passed

RECURSIVE verifyLoop(_, _, _, _, _)
verifyLoop(passed, cpuResults, gpuResults, size, i) ==
    IF i < size
    THEN verifyLoop(verifyStep(passed, cpuResults, gpuResults, i),
                    cpuResults, gpuResults, size, i + 1)
    ELSE passed

\* the value verifyResults returns: 1 passed, 0 failed
verifyResults(cpuResults, gpuResults, size) ==
    verifyLoop(1, cpuResults, gpuResults, size, 0)

\* --------------------------------------------------------------- spmvCpu

RECURSIVE rowSum(_, _, _, _, _, _)
\* the inner loop of spmvCpu, lines 43-47: j runs upwards from the row's
\* first entry, t += val[j] * vec[cols[j]]
rowSum(val, cols, vec, j, hi, t) ==
    IF j < hi
    THEN rowSum(val, cols, vec, j + 1, hi, FAdd(t, FMul(val[j], vec[cols[j]])))
    ELSE t

RECURSIVE rowSumDown(_, _, _, _, _, _)
rowSumDown(val, cols, vec, lo, j, t) ==
    IF lo < j
    THEN rowSumDown(val, cols, vec, lo, j - 1,
                    FAdd(t, FMul(val[j - 1], vec[cols[j - 1]])))
    ELSE t

\* mutant of spmvRow: the row's entries accumulated from the last to the
\* first
spmvRow_Descending(val, cols, rowDelimiters, vec, i) ==
    rowSumDown(val, cols, vec, rowDelimiters[i], rowDelimiters[i + 1], 0)

\* one turn of the outer loop of spmvCpu, lines 42-48: the value of out[i]
spmvRow(val, cols, rowDelimiters, vec, i) ==
    rowSum(val, cols, vec, rowDelimiters[i], rowDelimiters[i + 1], 0)

\* out after spmvCpu(val, cols, rowDelimiters, vec, dim, out)
spmvCpu(val, cols, rowDelimiters, vec, dim) ==
    [i \in 0 .. dim - 1 |-> spmvRow(val, cols, rowDelimiters, vec, i)]

\* ------------------------------------------------------- padded row count

\* mutant of PaddedSize: no padding when numRows is a multiple already
PaddedSize_OnlyIfNeeded(numRows, padFactor) ==
    IF numRows % padFactor # 0
    THEN numRows + (padFactor - (numRows % padFactor))
    ELSE numRows

\* mutant of PaddedSize: the quotient is taken in place of the remainder
PaddedSize_Quotient(numRows, padFactor) ==
    numRows + (padFactor - (numRows \div padFactor))

\* RunTest, line 822: numRows + (PAD_FACTOR - numRows % PAD_FACTOR)
PaddedSize(numRows, padFactor) ==
    numRows + (padFactor - (numRows % padFactor))

\* ------------------------------------------------------------------ state

VARIABLES
    \* verifyResults: its arguments, the loop index, passed, the position
    \* and the value returned
    v_cpu, v_gpu, v_size, v_i, v_passed, v_pc, v_ret,
    \* spmvCpu: its arguments (s_in), out (the entries written so far), the
    \* loop index and the position
    s_in, s_out, s_i, s_pc,
    \* the padded row count: numRows, PAD_FACTOR, paddedSize, the position
    p_numRows, p_padFactor, p_paddedSize, p_pc,
    \* RunTest: the position; the configuration being run (1 csrTest, 2
    \* csrTest on padded data, 3 ellPackTest)
    pc, cfg,
    \* the options "passes", "iterations" and "maxval", and PAD_FACTOR
    passes, iters, maxval, padFactor,
    \* the host data of RunTest
    numRows, nItems, h_val, h_cols, h_rowDelimiters,
    h_valPad, h_colsPad, h_rowDelimitersPad, nItemsPadded,
    h_vec, h_out, refOut, paddedSize,
    \* ellPackTest: h_rowLengths and maxrl
    h_rowLengths, maxrl,
    \* the device: the output buffer d_out of the running configuration
    d_out,
    \* the running configuration: the kernel of the current loop, the pass
    \* k and the iteration j
    kernel, k_pass, j_iter,
    \* the result database: the results in the order they were added
    resultDB,
    \* the host arrays on the heap: "none", "live" or "freed"
    heap,
    \* what happened, per configuration: its outcome, the arguments it was
    \* called with, the pass and kernel that failed verification, the
    \* kernel dispatches and the calls of verifyResults per kernel, and the
    \* work-group size getMaxWorkGroupSize reported
    outcome, args, failedAt, dispatchCount, verifyCount, maxLocal,
    \* the ELLPACKR layout of ellPackTest: its arguments (e_in),
    \* h_rowLengths, maxrl, cmSize, h_valcm, h_colscm and the position
    e_in, e_rowLengths, e_maxrl, e_cmSize, e_valcm, e_colscm, e_pc,
    \* one call of csrTest or ellPackTest, statement by statement: the
    \* function, the position, passes, iters, numNonZeroes, the timings of
    \* the device, what Event::FillTimingInfo returns, the kernel, k, j, the
    \* kernel time accumulated, iTransferTime, oTransferTime, the event
    \* kernelExec, the dispatches in flight, the device objects, the results
    \* added, what was done so far, and how the call ended
    c_fn, c_pc, c_passes, c_iters, c_nnz, c_profile, c_fillReturns,
    c_kernel, c_k, c_j, c_total, c_iTransfer, c_oTransfer, c_event,
    c_pending, c_dev, c_results, c_log, c_outcome,
    \* the random matrix of RunTest: the argument nRows, the option maxval,
    \* numRows, nItems, h_val, h_cols, h_rowDelimiters, the position and how
    \* the generation ended
    g_nRows, g_maxval, g_numRows, g_nItems, g_val, g_cols,
    g_rowDelimiters, g_pc, g_outcome,
    \* the vecAdd sample (main.cpp): position, platform query, handles held by
    \* main, state of each OpenCL object, calls of CleanUp, exit status
    m_pc, m_query, m_numPlateforms, m_errNum, m_platformIds, m_reads,
        m_firstPlatformId, m_device, m_context, m_commandQueue, m_program,
        m_kernel, m_memObjects, m_res, m_cleanUps, m_ret, m_allOk

verifyVars == <<v_cpu, v_gpu, v_size, v_i, v_passed, v_pc, v_ret>>
spmvVars == <<s_in, s_out, s_i, s_pc>>
padVars == <<p_numRows, p_padFactor, p_paddedSize, p_pc>>

runVars ==
    <<pc, cfg, passes, iters, maxval, padFactor, numRows, nItems, h_val, h_cols,
      h_rowDelimiters, h_valPad, h_colsPad, h_rowDelimitersPad, nItemsPadded,
      h_vec, h_out, refOut, paddedSize, h_rowLengths, maxrl, d_out, kernel, k_pass,
      j_iter, resultDB, heap, outcome, args, failedAt, dispatchCount, verifyCount,
      maxLocal>>

ellVars == <<e_in, e_rowLengths, e_maxrl, e_cmSize, e_valcm, e_colscm, e_pc>>

confVars == <<c_fn, c_pc, c_passes, c_iters, c_nnz, c_profile,
      c_fillReturns, c_kernel, c_k, c_j, c_total, c_iTransfer,
      c_oTransfer, c_event, c_pending, c_dev, c_results, c_log,
      c_outcome>>

genVars == <<g_nRows, g_maxval, g_numRows, g_nItems, g_val, g_cols,
      g_rowDelimiters, g_pc, g_outcome>>

mainVars == <<m_pc, m_query, m_numPlateforms, m_errNum, m_platformIds,
    m_reads, m_firstPlatformId, m_device, m_context, m_commandQueue, m_program,
    m_kernel, m_memObjects, m_res, m_cleanUps, m_ret, m_allOk>>

vars == <<verifyVars, spmvVars, padVars, runVars, ellVars, confVars, genVars, mainVars>>

\* ------------------------------------------- verifyResults, step by step

\* floats the compared vectors hold
VerifyVals == {-2, -1, 0, 1, 2}

Vectors(n, S) == [0 .. n - 1 -> S]

VerifyIdle ==
    /\ v_cpu = << >>
    /\ v_gpu = << >>
    /\ v_size = 0
    /\ v_i = 0
    /\ v_passed = 1
    /\ v_pc = "idle"
    /\ v_ret = -1

\* ------------------------------------------------- spmvCpu, row by row

\* floats of the matrix and of the dense vector; 2^24 + 1 is no float, so
\* the order of the additions shows in the sum
SpmvVals == {1, FloatExact}
SpmvVecVals == {-1, 1}

\* the CSR matrices with dim rows and columns and nnz entries of S
RowDelimiters(dim, nnz) ==
    {rd \in [0 .. dim -> 0 .. nnz] :
        /\ rd[0] = 0
        /\ rd[dim] = nnz
        /\ \A i \in 0 .. dim - 1 : rd[i] <= rd[i + 1]}

CsrMatrices(dim, nnz, S) ==
    {[val |-> val, cols |-> cols, rowDelimiters |-> rd, dim |-> dim, nnz |-> nnz] :
        val \in Vectors(nnz, S), cols \in Vectors(nnz, 0 .. dim - 1),
        rd \in RowDelimiters(dim, nnz)}

\* the 4 x 4 diagonal matrix with values 1, 2, 3, 4 and the vector of ones
DiagonalInput ==
    [val |-> [j \in 0 .. 3 |-> j + 1], cols |-> [j \in 0 .. 3 |-> j],
     rowDelimiters |-> [i \in 0 .. 4 |-> i], dim |-> 4, nnz |-> 4,
     vec |-> [i \in 0 .. 3 |-> 1]]

SpmvIdle ==
    /\ s_in = << >>
    /\ s_out = << >>
    /\ s_i = 0
    /\ s_pc = "idle"

PadIdle ==
    /\ p_numRows = 0
    /\ p_padFactor = 0
    /\ p_paddedSize = 0
    /\ p_pc = "idle"

\* ------------------------------------------------------------- a run

Configs == 1 .. 3
Kernels == {"CSR-Scalar", "CSR-Vector", "ELLPACKR"}
HostArrays ==
    {"h_val", "h_cols", "h_rowDelimiters", "h_valPad", "h_colsPad",
     "h_rowDelimitersPad", "h_vec", "h_out", "refOut", "h_rowLengths", "h_valcm",
     "h_colscm"}

\* floats and numbers of non-zeroes of the matrix read from the file,
\* values of "maxval", values of PAD_FACTOR, work-group sizes the device
\* reports
RunVals == {-1, 1}
RunNnz == {0, 1}
MaxvalSet == {1, 2}
PadFactors == {16}
MaxLocalSizes == {31, 32}

\* the matrices RunTest is run on: up to maxRows rows
RunMatrices(maxRows) ==
    UNION {CsrMatrices(d, n, RunVals) : d \in 1 .. maxRows, n \in RunNnz}

NoCounts == [c \in Configs |-> [kern \in Kernels |-> 0]]

\* the values of the run's variables that do not depend on its inputs
RunBlank ==
    /\ cfg = 0
    /\ h_valPad = << >>
    /\ h_colsPad = << >>
    /\ h_rowDelimitersPad = << >>
    /\ nItemsPadded = 0
    /\ h_vec = << >>
    /\ h_out = << >>
    /\ refOut = << >>
    /\ paddedSize = 0
    /\ h_rowLengths = << >>
    /\ maxrl = 0
    /\ d_out = << >>
    /\ kernel = "none"
    /\ k_pass = 0
    /\ j_iter = 0
    /\ resultDB = << >>
    /\ outcome = [c \in Configs |-> "notstarted"]
    /\ args = [c \in Configs |-> << >>]
    /\ failedAt = [c \in Configs |-> << >>]
    /\ dispatchCount = NoCounts
    /\ verifyCount = NoCounts
    /\ maxLocal = [c \in Configs |-> -1]

\* ----------- one call of csrTest or ellPackTest, statement by statement

Functions == {"csrTest", "ellPackTest"}

\* the device objects the two functions create
DeviceObjects ==
    {"prog", "csrScalar", "csrVector", "ellpackr", "d_val", "d_cols", "d_vec",
     "d_out", "d_rowDelimiters", "d_rowLengths"}

\* the five buffers of a function (lines 422-450 and 192-220)
BuffersOf(fn) ==
    IF fn = "csrTest"
    THEN {"d_val", "d_cols", "d_vec", "d_out", "d_rowDelimiters"}
    ELSE {"d_val", "d_cols", "d_vec", "d_out", "d_rowLengths"}

\* the kernels of a function (lines 511, 527 and 267)
KernelsOf(fn) ==
    IF fn = "csrTest" THEN {"csrScalar", "csrVector"} ELSE {"ellpackr"}

\* clCreate...: the objects exist
Created(dev, objs) ==
    [o \in DeviceObjects |-> IF o \in objs THEN "live" ELSE dev[o]]

\* clRelease...: a live object is released; the release of any other is
\* invalid
Released(dev, objs) ==
    [o \in DeviceObjects |->
        IF o \in objs
        THEN (IF dev[o] = "live" THEN "released" ELSE "invalid")
        ELSE dev[o]]

\* numbers of non-zeroes the function is called with; the timings the
\* device may show; what Event::FillTimingInfo may return
ConfNnz == {0, 3}
Profiles == {"flat", "varied", "warmup"}
FillReturns == {"elapsed", "nothing"}

\* the elapsed time of the dispatch of iteration j of pass k of a kernel
DispatchTime(profile, kern, k, j) ==
    CASE profile = "flat" -> 1
      [] profile = "varied" -> 1 + 3 * k + j + (IF kern = "CSR-Vector" THEN 1 ELSE 0)
      [] OTHER -> IF k = 0 /\ j = 0 THEN 7 ELSE 2

\* the elapsed times of the four transfers to the device
TransferTimes(profile) ==
    IF profile = "flat" THEN <<1, 1, 1, 1>> ELSE <<1, 2, 3, 4>>

\* the elapsed time of the read of the output of pass k of a kernel
ReadTime(profile, kern, k) ==
    IF profile = "flat" THEN 1 ELSE 2 + k

\* Event::StartEndRuntime: the elapsed time the event holds
StartEndRuntime(event) == event.elapsed

\* what a call of Event::FillTimingInfo yields as a value: the elapsed
\* time, or nothing that is a time
FillTimingInfo(event, returns) ==
    IF returns = "elapsed" THEN event.elapsed ELSE 0

\* an entry of what was done so far
Done(op, kern, k, ok) == [op |-> op, kernel |-> kern, pass |-> k, ok |-> ok]

ConfIdle ==
    /\ c_fn = "none"
    /\ c_pc = "idle"
    /\ c_passes = 0
    /\ c_iters = 0
    /\ c_nnz = 0
    /\ c_profile = "none"
    /\ c_fillReturns = "none"
    /\ c_kernel = "none"
    /\ c_k = 0
    /\ c_j = 0
    /\ c_total = 0
    /\ c_iTransfer = 0
    /\ c_oTransfer = 0
    /\ c_event = << >>
    /\ c_pending = 0
    /\ c_dev = << >>
    /\ c_results = << >>
    /\ c_log = << >>
    /\ c_outcome = "none"

\* the vecAdd sample is not running
MainIdle ==
    /\ m_pc = "idle"
    /\ m_query = "none"
    /\ m_numPlateforms = 0
    /\ m_errNum = "none"
    /\ m_platformIds = << >>
    /\ m_reads = {}
    /\ m_firstPlatformId = "unset"
    /\ m_device = "none"
    /\ m_context = 0
    /\ m_commandQueue = 0
    /\ m_program = 0
    /\ m_kernel = 0
    /\ m_memObjects = << >>
    /\ m_res = << >>
    /\ m_cleanUps = 0
    /\ m_ret = -1
    /\ m_allOk = TRUE

GenIdle ==
    /\ g_nRows = 0
    /\ g_maxval = 0
    /\ g_numRows = 0
    /\ g_nItems = 0
    /\ g_val = << >>
    /\ g_cols = << >>
    /\ g_rowDelimiters = << >>
    /\ g_pc = "idle"
    /\ g_outcome = "none"

EllIdle ==
    /\ e_in = << >>
    /\ e_rowLengths = << >>
    /\ e_maxrl = 0
    /\ e_cmSize = 0
    /\ e_valcm = << >>
    /\ e_colscm = << >>
    /\ e_pc = "idle"

RunIdle ==
    /\ RunBlank
    /\ pc = "idle"
    /\ passes = 0
    /\ iters = 0
    /\ maxval = 0
    /\ padFactor = 0
    /\ numRows = 0
    /\ nItems = 0
    /\ h_val = << >>
    /\ h_cols = << >>
    /\ h_rowDelimiters = << >>
    /\ heap = [a \in HostArrays |-> "none"]

\* the call verifyResults(cpuResults, gpuResults, size, pass), at line 74
VerifyInit ==
    /\ v_size \in 0 .. MaxSize
    /\ v_cpu \in Vectors(v_size, VerifyVals)
    /\ v_gpu \in Vectors(v_size, VerifyVals)
    /\ v_i = 0
    /\ v_passed = 1
    /\ v_pc = "loop"
    /\ v_ret = -1
    /\ SpmvIdle
    /\ PadIdle
    /\ RunIdle
    /\ EllIdle
    /\ ConfIdle
    /\ GenIdle
    /\ MainIdle

\* one turn of the for loop, lines 75-85
VerifyIter ==
    /\ v_pc = "loop"
    /\ v_i < v_size
    /\ v_passed' = verifyStep(v_passed, v_cpu, v_gpu, v_i)
    /\ v_i' = v_i + 1
    /\ UNCHANGED <<v_cpu, v_gpu, v_size, v_pc, v_ret>>
    /\ UNCHANGED <<spmvVars, padVars, runVars, ellVars, confVars, genVars, mainVars>>

\* the loop ends and the function returns passed, lines 87-95
VerifyReturn ==
    /\ v_pc = "loop"
    /\ ~(v_i < v_size)
    /\ v_pc' = "returned"
    /\ v_ret' = v_passed
    /\ UNCHANGED <<v_cpu, v_gpu, v_size, v_i, v_passed>>
    /\ UNCHANGED <<spmvVars, padVars, runVars, ellVars, confVars, genVars, mainVars>>

VerifyNext == VerifyIter \/ VerifyReturn

SpecVerify == VerifyInit /\ [][VerifyNext]_vars

\* the call spmvCpu(val, cols, rowDelimiters, vec, dim, out), at line 41;
\* nothing of out is written yet
SpmvInit ==
    /\ \/ \E d \in 1 .. MaxDim, n \in 0 .. MaxNnz :
            \E m \in CsrMatrices(d, n, SpmvVals), vec \in Vectors(d, SpmvVecVals) :
                s_in = [val |-> m.val, cols |-> m.cols,
                        rowDelimiters |-> m.rowDelimiters,
                        dim |-> m.dim, nnz |-> m.nnz, vec |-> vec]
       \/ s_in = DiagonalInput
    /\ s_out = << >>
    /\ s_i = 0
    /\ s_pc = "loop"
    /\ VerifyIdle
    /\ PadIdle
    /\ RunIdle
    /\ EllIdle
    /\ ConfIdle
    /\ GenIdle
    /\ MainIdle

\* one turn of the outer loop, lines 41-49: out[i] = t
SpmvIter ==
    /\ s_pc = "loop"
    /\ s_i < s_in.dim
    /\ s_out' = [k \in 0 .. s_i |->
                    IF k = s_i
                    THEN spmvRow(s_in.val, s_in.cols, s_in.rowDelimiters,
                                 s_in.vec, s_i)
                    ELSE s_out[k]]
    /\ s_i' = s_i + 1
    /\ UNCHANGED <<s_in, s_pc>>
    /\ UNCHANGED <<verifyVars, padVars, runVars, ellVars, confVars, genVars, mainVars>>

\* the loop ends, line 51
SpmvReturn ==
    /\ s_pc = "loop"
    /\ ~(s_i < s_in.dim)
    /\ s_pc' = "returned"
    /\ UNCHANGED <<s_in, s_out, s_i>>
    /\ UNCHANGED <<verifyVars, padVars, runVars, ellVars, confVars, genVars, mainVars>>

SpmvNext == SpmvIter \/ SpmvReturn

SpecSpmv == SpmvInit /\ [][SpmvNext]_vars

\* RunTest before line 822, for a matrix of numRows rows and a PAD_FACTOR
PadInit ==
    /\ p_numRows \in 1 .. MaxPadRows
    /\ p_padFactor \in 1 .. MaxPadFactor
    /\ p_paddedSize = 0
    /\ p_pc = "start"
    /\ VerifyIdle
    /\ SpmvIdle
    /\ RunIdle
    /\ EllIdle
    /\ ConfIdle
    /\ GenIdle
    /\ MainIdle

\* line 822
PadCompute ==
    /\ p_pc = "start"
    /\ p_paddedSize' = PaddedSize(p_numRows, p_padFactor)
    /\ p_pc' = "done"
    /\ UNCHANGED <<p_numRows, p_padFactor>>
    /\ UNCHANGED <<verifyVars, spmvVars, runVars, ellVars, confVars, genVars, mainVars>>

PadNext == PadCompute

SpecPad == PadInit /\ [][PadNext]_vars

\* the state at line 794 of RunTest: the matrix is read (or generated), the
\* options are known
RunInit ==
    /\ RunBlank
    /\ pc = "RunTest"
    /\ \E m \in RunMatrices(MaxRows) :
        /\ numRows = m.dim
        /\ nItems = m.nnz
        /\ h_val = m.val
        /\ h_cols = m.cols
        /\ h_rowDelimiters = m.rowDelimiters
    /\ passes \in 1 .. MaxPasses
    /\ iters \in 1 .. MaxIters
    /\ maxval \in MaxvalSet
    /\ padFactor \in PadFactors
    /\ heap = [a \in HostArrays |->
                IF a \in {"h_val", "h_cols", "h_rowDelimiters"} THEN "live" ELSE "none"]
    /\ VerifyIdle
    /\ SpmvIdle
    /\ PadIdle
    /\ EllIdle
    /\ ConfIdle
    /\ GenIdle
    /\ MainIdle

\* convertToPadded as RunTest uses its results: the values and column
\* indices of the matrix, and the numRows + 1 row offsets that fit
\* h_rowDelimitersPad
convertToPadded(val, cols, dim, rowDelimiters) ==
    [val |-> val, cols |-> cols,
     rowDelimiters |-> [i \in 0 .. dim |-> rowDelimiters[i]],
     nItems |-> rowDelimiters[dim]]

\* fill(h_vec, numRows, maxval)
fill(n, value) == [i \in 0 .. n - 1 |-> value]

\* lines 816-828 of RunTest: the remaining host data, the padded data
\* structures and the reference solution
RunTest_Setup ==
    /\ pc = "RunTest"
    /\ h_vec' = fill(numRows, maxval)
    /\ paddedSize' = PaddedSize(numRows, padFactor)
    /\ LET p == convertToPadded(h_val, h_cols, numRows, h_rowDelimiters)
       IN  /\ h_valPad' = p.val
           /\ h_colsPad' = p.cols
           /\ h_rowDelimitersPad' = p.rowDelimiters
           /\ nItemsPadded' = p.nItems
    /\ refOut' = spmvCpu(h_val, h_cols, h_rowDelimiters, h_vec', numRows)
    /\ heap' = [a \in HostArrays |->
                 IF a \in {"h_vec", "refOut", "h_rowDelimitersPad", "h_out",
                           "h_valPad", "h_colsPad"}
                 THEN "live" ELSE heap[a]]
    /\ cfg' = 1
    /\ pc' = "csrTest"
    /\ UNCHANGED <<passes, iters, maxval, padFactor, numRows, nItems, h_val,
                   h_cols, h_rowDelimiters, h_out, h_rowLengths, maxrl, d_out,
                   kernel, k_pass, j_iter, resultDB, outcome, args, failedAt,
                   dispatchCount, verifyCount, maxLocal>>
    /\ UNCHANGED <<verifyVars, spmvVars, padVars, ellVars, confVars, genVars, mainVars>>

\* mutant of CallArgs: ellPackTest is handed the dense vector as reference
CallArgs_VectorAsReference(c) ==
    IF c = 2
    THEN [val |-> h_valPad, cols |-> h_colsPad, rowDelimiters |-> h_rowDelimitersPad,
          vec |-> h_vec, numRows |-> numRows, numNonZeroes |-> nItemsPadded,
          refOut |-> refOut, padded |-> TRUE, paddedSize |-> paddedSize]
    ELSE [val |-> h_val, cols |-> h_cols, rowDelimiters |-> h_rowDelimiters,
          vec |-> h_vec, numRows |-> numRows, numNonZeroes |-> nItems,
          refOut |-> IF c = 3 THEN h_vec ELSE refOut, padded |-> FALSE,
          paddedSize |-> paddedSize]

\* the arguments of the three calls of RunTest, lines 853-871 (and the same
\* calls at lines 833-851 for a device with images)
CallArgs(c) ==
    IF c = 2
    THEN [val |-> h_valPad, cols |-> h_colsPad, rowDelimiters |-> h_rowDelimitersPad,
          vec |-> h_vec, numRows |-> numRows, numNonZeroes |-> nItemsPadded,
          refOut |-> refOut, padded |-> TRUE, paddedSize |-> paddedSize]
    ELSE [val |-> h_val, cols |-> h_cols, rowDelimiters |-> h_rowDelimiters,
          vec |-> h_vec, numRows |-> numRows, numNonZeroes |-> nItems,
          refOut |-> refOut, padded |-> FALSE, paddedSize |-> paddedSize]

\* mutant of AfterReturn: a configuration that failed verification ends
\* the run
AfterReturn_FailureEndsRun(c, why) ==
    IF why = "failed" THEN [cfg |-> 0, pc |-> "teardown"]
    ELSE IF c = 1 THEN [cfg |-> 2, pc |-> "csrTest"]
    ELSE IF c = 2 THEN [cfg |-> 3, pc |-> "ellPackTest"]
    ELSE [cfg |-> 0, pc |-> "teardown"]

\* where RunTest goes on when configuration c has returned, for whatever
\* reason why: the next call, or the delete[] of line 873
AfterReturn(c, why) ==
    IF c = 1 THEN [cfg |-> 2, pc |-> "csrTest"]
    ELSE IF c = 2 THEN [cfg |-> 3, pc |-> "ellPackTest"]
    ELSE [cfg |-> 0, pc |-> "teardown"]

\* csrTest or ellPackTest returns; its locals are gone
Return(c, why) ==
    /\ outcome' = [outcome EXCEPT ![c] = why]
    /\ pc' = AfterReturn(c, why).pc
    /\ cfg' = AfterReturn(c, why).cfg
    /\ kernel' = "none"
    /\ k_pass' = 0
    /\ j_iter' = 0
    /\ d_out' = << >>

\* what a dispatched kernel may leave in the output buffer: the product
\* the kernel is to compute, a product with a wrong first entry, or the
\* buffer as it was
KernelOutputs(a, buffer) ==
    LET product == spmvCpu(a.val, a.cols, a.rowDelimiters, a.vec, a.numRows)
    IN  {product, [product EXCEPT ![0] = @ + 1], buffer}

\* the contents of a buffer clCreateBuffer returns: not initialised
FreshBuffers(a) ==
    {fill(a.numRows, 0),
     spmvCpu(a.val, a.cols, a.rowDelimiters, a.vec, a.numRows)}

\* csrTest up to line 415: the call, the program created and built
CsrBegin ==
    /\ pc = "csrTest"
    /\ args' = [args EXCEPT ![cfg] = CallArgs(cfg)]
    /\ \E built \in BOOLEAN :
        IF built
        THEN /\ pc' = "csr_transfer"
             /\ outcome' = [outcome EXCEPT ![cfg] = "running"]
             /\ UNCHANGED <<cfg, kernel, k_pass, j_iter, d_out>>
        ELSE Return(cfg, "buildfail")
    /\ UNCHANGED <<passes, iters, maxval, padFactor, numRows, nItems, h_val,
                   h_cols, h_rowDelimiters, h_valPad, h_colsPad,
                   h_rowDelimitersPad, nItemsPadded, h_vec, h_out, refOut,
                   paddedSize, h_rowLengths, maxrl, resultDB, heap, failedAt,
                   dispatchCount, verifyCount, maxLocal>>
    /\ UNCHANGED <<verifyVars, spmvVars, padVars, ellVars, confVars, genVars, mainVars>>

\* csrTest, lines 417-556: the buffers, the transfers to the device, the
\* two kernels; then the first loop, of the scalar kernel
CsrTransfer ==
    /\ pc = "csr_transfer"
    /\ d_out' \in FreshBuffers(args[cfg])
    /\ kernel' = "CSR-Scalar"
    /\ k_pass' = 0
    /\ j_iter' = 0
    /\ pc' = IF 0 < passes THEN "dispatch" ELSE "csr_gate"
    /\ UNCHANGED <<cfg, passes, iters, maxval, padFactor, numRows, nItems, h_val,
                   h_cols, h_rowDelimiters, h_valPad, h_colsPad,
                   h_rowDelimitersPad, nItemsPadded, h_vec, h_out, refOut,
                   paddedSize, h_rowLengths, maxrl, resultDB, heap, outcome, args,
                   failedAt, dispatchCount, verifyCount, maxLocal>>
    /\ UNCHANGED <<verifyVars, spmvVars, padVars, ellVars, confVars, genVars, mainVars>>

\* one turn of the iteration loop: the kernel is enqueued and clFinish
\* waits for it (lines 562-572, 640-650 and 292-302)
Dispatch ==
    /\ pc = "dispatch"
    /\ j_iter < iters
    /\ d_out' \in KernelOutputs(args[cfg], d_out)
    /\ j_iter' = j_iter + 1
    /\ dispatchCount' = [dispatchCount EXCEPT ![cfg][kernel] = @ + 1]
    /\ UNCHANGED <<pc, cfg, passes, iters, maxval, padFactor, numRows, nItems,
                   h_val, h_cols, h_rowDelimiters, h_valPad, h_colsPad,
                   h_rowDelimitersPad, nItemsPadded, h_vec, h_out, refOut,
                   paddedSize, h_rowLengths, maxrl, kernel, k_pass, resultDB, heap,
                   outcome, args, failedAt, verifyCount, maxLocal>>
    /\ UNCHANGED <<verifyVars, spmvVars, padVars, ellVars, confVars, genVars, mainVars>>

\* the iterations are done: the output is read back into h_out (lines
\* 574-582, 652-659 and 304-311)
ReadBack ==
    /\ pc = "dispatch"
    /\ ~(j_iter < iters)
    /\ h_out' = d_out
    /\ pc' = "verify"
    /\ UNCHANGED <<cfg, passes, iters, maxval, padFactor, numRows, nItems, h_val,
                   h_cols, h_rowDelimiters, h_valPad, h_colsPad,
                   h_rowDelimitersPad, nItemsPadded, h_vec, refOut, paddedSize,
                   h_rowLengths, maxrl, d_out, kernel, k_pass, j_iter, resultDB,
                   heap, outcome, args, failedAt, dispatchCount, verifyCount,
                   maxLocal>>
    /\ UNCHANGED <<verifyVars, spmvVars, padVars, ellVars, confVars, genVars, mainVars>>

\* mutant of ReturnsOnVerify: the result of verifyResults is ignored
ReturnsOnVerify_Never(passed) == FALSE

\* if (! verifyResults(refOut, h_out, numRows, k)) return;
ReturnsOnVerify(passed) == passed = 0

\* the benchmark name of a kernel's results: prefix, kernel, precision
BenchName(kern, padded) ==
    <<IF padded THEN "Padded_" ELSE "", kern, IF kern = "ELLPACKR" THEN "SP" ELSE "-SP">>

\* mutant of PassResults: only the compute-only result is added
PassResults_NoPCIe(c, kern, pass, padded) ==
    <<[name |-> BenchName(kern, padded), pcie |-> FALSE, cfg |-> c, kernel |-> kern,
       pass |-> pass]>>

\* the two calls of resultDB.AddResult of a pass (lines 592-595, 669-671
\* and 325-328), each tagged with the configuration and pass that made it
PassResults(c, kern, pass, padded) ==
    <<[name |-> BenchName(kern, padded), pcie |-> FALSE, cfg |-> c, kernel |-> kern,
       pass |-> pass],
      [name |-> BenchName(kern, padded), pcie |-> TRUE, cfg |-> c, kernel |-> kern,
       pass |-> pass]>>

\* where a configuration goes on after the last pass of a kernel
AfterPasses(kern) ==
    CASE kern = "CSR-Scalar" -> "csr_gate"
      [] kern = "CSR-Vector" -> "csr_release"
      [] OTHER -> "ell_release"

\* the end of a pass: verifyResults, then the return or the two results
\* (lines 584-596, 661-672 and 313-329)
Verify ==
    /\ pc = "verify"
    /\ LET a == args[cfg]
           passed == verifyResults(a.refOut, h_out, a.numRows)
       IN  /\ verifyCount' = [verifyCount EXCEPT ![cfg][kernel] = @ + 1]
           /\ failedAt' = IF passed = 0 /\ failedAt[cfg] = << >>
                          THEN [failedAt EXCEPT ![cfg] = <<kernel, k_pass>>]
                          ELSE failedAt
           /\ IF ReturnsOnVerify(passed)
              THEN /\ Return(cfg, "failed")
                   /\ UNCHANGED resultDB
              ELSE /\ resultDB' = resultDB \o PassResults(cfg, kernel, k_pass, a.padded)
                   /\ k_pass' = k_pass + 1
                   /\ j_iter' = 0
                   /\ pc' = IF k_pass + 1 < passes THEN "dispatch"
                            ELSE AfterPasses(kernel)
                   /\ UNCHANGED <<cfg, outcome, kernel, d_out>>
    /\ UNCHANGED <<passes, iters, maxval, padFactor, numRows, nItems, h_val,
                   h_cols, h_rowDelimiters, h_valPad, h_colsPad,
                   h_rowDelimitersPad, nItemsPadded, h_vec, h_out, refOut,
                   paddedSize, h_rowLengths, maxrl, heap, args, dispatchCount,
                   maxLocal>>
    /\ UNCHANGED <<verifyVars, spmvVars, padVars, ellVars, confVars, genVars, mainVars>>

\* the least work-group size the vector kernel needs, line 606
VectorMinLocal == 32

\* mutant of GateSkips: the vector kernel is run whatever the device reports
GateSkips_Never(reported) == FALSE

\* if (maxLocal < 32)
GateSkips(reported) == reported < VectorMinLocal

\* csrTest, lines 598-634: the output buffer is overwritten with h_vec, the
\* work-group size is checked; the vector kernel is skipped (everything is
\* released, the function returns) or its loop starts
CsrGate ==
    /\ pc = "csr_gate"
    /\ \E reported \in MaxLocalSizes :
        /\ maxLocal' = [maxLocal EXCEPT ![cfg] = reported]
        /\ IF GateSkips(reported)
           THEN Return(cfg, "skipped")
           ELSE /\ d_out' = args[cfg].vec
                /\ kernel' = "CSR-Vector"
                /\ k_pass' = 0
                /\ j_iter' = 0
                /\ pc' = IF 0 < passes THEN "dispatch" ELSE "csr_release"
                /\ UNCHANGED <<cfg, outcome>>
    /\ UNCHANGED <<passes, iters, maxval, padFactor, numRows, nItems, h_val,
                   h_cols, h_rowDelimiters, h_valPad, h_colsPad,
                   h_rowDelimitersPad, nItemsPadded, h_vec, h_out, refOut,
                   paddedSize, h_rowLengths, maxrl, resultDB, heap, args, failedAt,
                   dispatchCount, verifyCount>>
    /\ UNCHANGED <<verifyVars, spmvVars, padVars, ellVars, confVars, genVars, mainVars>>

\* csrTest, lines 674-691: everything is released, the function returns
CsrRelease ==
    /\ pc = "csr_release"
    /\ Return(cfg, "completed")
    /\ UNCHANGED <<passes, iters, maxval, padFactor, numRows, nItems, h_val,
                   h_cols, h_rowDelimiters, h_valPad, h_colsPad,
                   h_rowDelimitersPad, nItemsPadded, h_vec, h_out, refOut,
                   paddedSize, h_rowLengths, maxrl, resultDB, heap, args, failedAt,
                   dispatchCount, verifyCount, maxLocal>>
    /\ UNCHANGED <<verifyVars, spmvVars, padVars, ellVars, confVars, genVars, mainVars>>

\* ellPackTest up to line 163: the call, the program created and built
EllBegin ==
    /\ pc = "ellPackTest"
    /\ args' = [args EXCEPT ![cfg] = CallArgs(cfg)]
    /\ \E built \in BOOLEAN :
        IF built
        THEN /\ pc' = "ell_setup"
             /\ outcome' = [outcome EXCEPT ![cfg] = "running"]
             /\ UNCHANGED <<cfg, kernel, k_pass, j_iter, d_out>>
        ELSE Return(cfg, "buildfail")
    /\ UNCHANGED <<passes, iters, maxval, padFactor, numRows, nItems, h_val,
                   h_cols, h_rowDelimiters, h_valPad, h_colsPad,
                   h_rowDelimitersPad, nItemsPadded, h_vec, h_out, refOut,
                   paddedSize, h_rowLengths, maxrl, resultDB, heap, failedAt,
                   dispatchCount, verifyCount, maxLocal>>
    /\ UNCHANGED <<verifyVars, spmvVars, padVars, ellVars, confVars, genVars, mainVars>>

\* lines 167-178: the length of every row, 0 for the rows of the padding
RowLengths(rowDelimiters, rows, padded) ==
    [p \in 0 .. padded - 1 |->
        IF p < rows THEN rowDelimiters[p + 1] - rowDelimiters[p] ELSE 0]

\* mutant of MaxRowLength: the length of the last row
MaxRowLength_LastRow(rowDelimiters, rows, row, best) ==
    IF rows = 0 THEN 0 ELSE rowDelimiters[rows] - rowDelimiters[rows - 1]

RECURSIVE MaxRowLength(_, _, _, _)
\* lines 166-174: maxrl, the largest of the first rows row lengths
MaxRowLength(rowDelimiters, rows, row, best) ==
    IF row < rows
    THEN LET len == rowDelimiters[row + 1] - rowDelimiters[row]
         IN  MaxRowLength(rowDelimiters, rows, row + 1, IF len > best THEN len ELSE best)
    ELSE best

\* ellPackTest, lines 165-287: the row lengths, the column major arrays,
\* the buffers, the transfers to the device, the kernel
EllSetup ==
    /\ pc = "ell_setup"
    /\ LET a == args[cfg]
       IN  /\ h_rowLengths' = RowLengths(a.rowDelimiters, a.numRows, a.paddedSize)
           /\ maxrl' = MaxRowLength(a.rowDelimiters, a.numRows, 0, 0)
           /\ d_out' \in FreshBuffers(a)
    /\ heap' = [a \in HostArrays |->
                 IF a \in {"h_rowLengths", "h_valcm", "h_colscm"} THEN "live"
                 ELSE heap[a]]
    /\ kernel' = "ELLPACKR"
    /\ k_pass' = 0
    /\ j_iter' = 0
    /\ pc' = IF 0 < passes THEN "dispatch" ELSE "ell_release"
    /\ UNCHANGED <<cfg, passes, iters, maxval, padFactor, numRows, nItems, h_val,
                   h_cols, h_rowDelimiters, h_valPad, h_colsPad,
                   h_rowDelimitersPad, nItemsPadded, h_vec, h_out, refOut,
                   paddedSize, resultDB, outcome, args, failedAt, dispatchCount,
                   verifyCount, maxLocal>>
    /\ UNCHANGED <<verifyVars, spmvVars, padVars, ellVars, confVars, genVars, mainVars>>

\* delete[] p, q, r; is the comma operator: delete[] p, then q and r as
\* expressions without effect
DeleteFirst(h, first) == [h EXCEPT ![first] = "freed"]

\* ellPackTest, lines 331-350: the device objects are released, then
\* delete[] h_rowLengths, h_valcm, h_colscm; and the function returns
EllRelease ==
    /\ pc = "ell_release"
    /\ heap' = DeleteFirst(heap, "h_rowLengths")
    /\ Return(cfg, "completed")
    /\ UNCHANGED <<passes, iters, maxval, padFactor, numRows, nItems, h_val,
                   h_cols, h_rowDelimiters, h_valPad, h_colsPad,
                   h_rowDelimitersPad, nItemsPadded, h_vec, h_out, refOut,
                   paddedSize, h_rowLengths, maxrl, resultDB, args, failedAt,
                   dispatchCount, verifyCount, maxLocal>>
    /\ UNCHANGED <<verifyVars, spmvVars, padVars, ellVars, confVars, genVars, mainVars>>

\* RunTest, lines 873-875: delete[] h_val, ...; delete[] h_valPad, ...;
RunTest_Teardown ==
    /\ pc = "teardown"
    /\ heap' = DeleteFirst(DeleteFirst(heap, "h_val"), "h_valPad")
    /\ pc' = "done"
    /\ UNCHANGED <<cfg, passes, iters, maxval, padFactor, numRows, nItems, h_val,
                   h_cols, h_rowDelimiters, h_valPad, h_colsPad,
                   h_rowDelimitersPad, nItemsPadded, h_vec, h_out, refOut,
                   paddedSize, h_rowLengths, maxrl, d_out, kernel, k_pass, j_iter,
                   resultDB, outcome, args, failedAt, dispatchCount, verifyCount,
                   maxLocal>>
    /\ UNCHANGED <<verifyVars, spmvVars, padVars, ellVars, confVars, genVars, mainVars>>

Next ==
    \/ RunTest_Setup
    \/ CsrBegin
    \/ CsrTransfer
    \/ Dispatch
    \/ ReadBack
    \/ Verify
    \/ CsrGate
    \/ CsrRelease
    \/ EllBegin
    \/ EllSetup
    \/ EllRelease
    \/ RunTest_Teardown

Spec == RunInit /\ [][Next]_vars

\* ------------------------------------ the ELLPACKR layout of ellPackTest

\* floats of the matrix and values of PAD_FACTOR the layout is built for
EllVals == {1, 2}
EllPadFactors == {2, 3}

\* the matrix with rows of 1, 3, 0 and 2 entries
RowLengthsExample ==
    [val |-> [j \in 0 .. 5 |-> j + 1], cols |-> [j \in 0 .. 5 |-> j % 4],
     rowDelimiters |-> [i \in 0 .. 4 |-> <<0, 1, 4, 4, 6>>[i + 1]], dim |-> 4, nnz |-> 6]

\* the call of ellPackTest, at line 165: the program is built
EllInit ==
    /\ \E m \in UNION {CsrMatrices(d, n, EllVals) :
                            d \in 1 .. MaxEllRows, n \in 0 .. MaxEllNnz}
                \cup {RowLengthsExample},
          padded \in BOOLEAN, factor \in EllPadFactors :
            e_in = [val |-> m.val, cols |-> m.cols, rowDelimiters |-> m.rowDelimiters,
                    numRows |-> m.dim, numNonZeroes |-> m.nnz, padded |-> padded,
                    paddedSize |-> PaddedSize(m.dim, factor)]
    /\ e_rowLengths = << >>
    /\ e_maxrl = 0
    /\ e_cmSize = 0
    /\ e_valcm = << >>
    /\ e_colscm = << >>
    /\ e_pc = "start"
    /\ VerifyIdle
    /\ SpmvIdle
    /\ PadIdle
    /\ RunIdle
    /\ ConfIdle
    /\ GenIdle
    /\ MainIdle

\* lines 165-178: h_rowLengths and maxrl
EllRowLengths ==
    /\ e_pc = "start"
    /\ e_rowLengths' = RowLengths(e_in.rowDelimiters, e_in.numRows, e_in.paddedSize)
    /\ e_maxrl' = MaxRowLength(e_in.rowDelimiters, e_in.numRows, 0, 0)
    /\ e_pc' = "lengths"
    /\ UNCHANGED <<e_in, e_cmSize, e_valcm, e_colscm>>
    /\ UNCHANGED <<verifyVars, spmvVars, padVars, runVars, confVars, genVars, mainVars>>

\* mutant of CmSize: the layout always has the padded number of rows
CmSize_AlwaysPadded(padded, padSize, rows) == padSize

\* line 181: int cmSize = padded ? paddedSize : numRows;
CmSize(padded, padSize, rows) == IF padded THEN padSize ELSE rows

\* convertToColMajor for a layout of stride rows: the entry k of row r at
\* index k * stride + r, 0 in every other slot
convertToColMajor(val, cols, dim, rowDelimiters, rl, maxLength, stride) ==
    LET filled(n) == n % stride < dim /\ n \div stride < rl[n % stride]
        entry(n) == rowDelimiters[n % stride] + (n \div stride)
    IN  [valcm |-> [n \in 0 .. maxLength * stride - 1 |->
                        IF filled(n) THEN val[entry(n)] ELSE 0],
         colscm |-> [n \in 0 .. maxLength * stride - 1 |->
                        IF filled(n) THEN cols[entry(n)] ELSE 0]]

\* lines 180-185: cmSize, the column major arrays, convertToColMajor
EllColMajor ==
    /\ e_pc = "lengths"
    /\ e_cmSize' = CmSize(e_in.padded, e_in.paddedSize, e_in.numRows)
    /\ LET cm == convertToColMajor(e_in.val, e_in.cols, e_in.numRows,
                                   e_in.rowDelimiters, e_rowLengths, e_maxrl,
                                   e_cmSize')
       IN  /\ e_valcm' = cm.valcm
           /\ e_colscm' = cm.colscm
    /\ e_pc' = "converted"
    /\ UNCHANGED <<e_in, e_rowLengths, e_maxrl>>
    /\ UNCHANGED <<verifyVars, spmvVars, padVars, runVars, confVars, genVars, mainVars>>

EllNext == EllRowLengths \/ EllColMajor

SpecEll == EllInit /\ [][EllNext]_vars

\* the call of csrTest or of ellPackTest, at line 393 or 143
ConfInit ==
    /\ c_fn \in Functions
    /\ c_pc = "begin"
    /\ c_passes \in 1 .. MaxConfPasses
    /\ c_iters \in 1 .. MaxConfIters
    /\ c_nnz \in ConfNnz
    /\ c_profile \in Profiles
    /\ c_fillReturns \in FillReturns
    /\ c_kernel = "none"
    /\ c_k = 0
    /\ c_j = 0
    /\ c_total = 0
    /\ c_iTransfer = 0
    /\ c_oTransfer = 0
    /\ c_event = [kernel |-> "none", pass |-> 0, iter |-> 0, complete |-> TRUE,
                  elapsed |-> 0]
    /\ c_pending = 0
    /\ c_dev = [o \in DeviceObjects |-> "none"]
    /\ c_results = << >>
    /\ c_log = << >>
    /\ c_outcome = "running"
    /\ VerifyIdle
    /\ SpmvIdle
    /\ PadIdle
    /\ RunIdle
    /\ EllIdle
    /\ GenIdle
    /\ MainIdle

\* return; the function is left as it is
ConfReturn(why) ==
    /\ c_pc' = "returned"
    /\ c_outcome' = why

\* lines 395-415 and 144-163: the program is created and built; a build
\* error returns
ConfBegin ==
    /\ c_pc = "begin"
    /\ c_dev' = Created(c_dev, {"prog"})
    /\ \E built \in BOOLEAN :
        IF built
        THEN /\ c_pc' = "buffers"
             /\ UNCHANGED c_outcome
        ELSE ConfReturn("buildfail")
    /\ UNCHANGED <<c_fn, c_passes, c_iters, c_nnz, c_profile,
                   c_fillReturns, c_kernel, c_k, c_j, c_total,
                   c_iTransfer, c_oTransfer, c_event, c_pending,
                   c_results, c_log>>
    /\ UNCHANGED <<verifyVars, spmvVars, padVars, runVars, ellVars, genVars, mainVars>>

\* lines 417-450 and 187-220: the five buffers
ConfBuffers ==
    /\ c_pc = "buffers"
    /\ c_dev' = Created(c_dev, BuffersOf(c_fn))
    /\ c_pc' = "transfer"
    /\ UNCHANGED <<c_fn, c_passes, c_iters, c_nnz, c_profile,
                   c_fillReturns, c_kernel, c_k, c_j, c_total,
                   c_iTransfer, c_oTransfer, c_event, c_pending,
                   c_results, c_log, c_outcome>>
    /\ UNCHANGED <<verifyVars, spmvVars, padVars, runVars, ellVars, genVars, mainVars>>

\* lines 452-495 and 222-264: the four blocking writes, clFinish, the
\* timing of the four events and their sum, iTransferTime
ConfTransfer ==
    /\ c_pc = "transfer"
    /\ c_pending' = 0
    /\ LET t == TransferTimes(c_profile)
       IN  c_iTransfer' = StartEndRuntime([elapsed |-> t[1]])
                            + StartEndRuntime([elapsed |-> t[2]])
                            + StartEndRuntime([elapsed |-> t[3]])
                            + StartEndRuntime([elapsed |-> t[4]])
    /\ c_log' = Append(c_log, Done("transferred", "none", 0, TRUE))
    /\ c_pc' = "kernels"
    /\ UNCHANGED <<c_fn, c_passes, c_iters, c_nnz, c_profile,
                   c_fillReturns, c_kernel, c_k, c_j, c_total,
                   c_oTransfer, c_event, c_dev, c_results, c_outcome>>
    /\ UNCHANGED <<verifyVars, spmvVars, padVars, runVars, ellVars, genVars, mainVars>>

\* the kernel of the first loop of a function
FirstKernel(fn) == IF fn = "csrTest" THEN "CSR-Scalar" ELSE "ELLPACKR"

\* where a function goes on after the last pass of a kernel: the scalar
\* kernel is followed by line 598, the others by the releases
AfterLoop(kern) == IF kern = "CSR-Scalar" THEN "gate" ELSE "release"

\* lines 497-558 and 266-289: the kernels are created and given their
\* arguments; k = 0 of the first loop
ConfKernels ==
    /\ c_pc = "kernels"
    /\ c_dev' = Created(c_dev, KernelsOf(c_fn))
    /\ c_kernel' = FirstKernel(c_fn)
    /\ c_k' = 0
    /\ c_pc' = IF 0 < c_passes THEN "pass" ELSE AfterLoop(FirstKernel(c_fn))
    /\ UNCHANGED <<c_fn, c_passes, c_iters, c_nnz, c_profile,
                   c_fillReturns, c_j, c_total, c_iTransfer, c_oTransfer,
                   c_event, c_pending, c_results, c_log, c_outcome>>
    /\ UNCHANGED <<verifyVars, spmvVars, padVars, runVars, ellVars, genVars, mainVars>>

\* mutant of InitialKernelTime: the accumulator is not set back
InitialKernelTime_CarriedOver(previous) == previous

\* double scalarKernelTime = 0.0; (lines 560, 639 and 291)
InitialKernelTime(previous) == 0

\* the head of a pass: the accumulator, j = 0
ConfPassStart ==
    /\ c_pc = "pass"
    /\ c_total' = InitialKernelTime(c_total)
    /\ c_j' = 0
    /\ c_pc' = "iter"
    /\ UNCHANGED <<c_fn, c_passes, c_iters, c_nnz, c_profile,
                   c_fillReturns, c_kernel, c_k, c_iTransfer, c_oTransfer,
                   c_event, c_pending, c_dev, c_results, c_log,
                   c_outcome>>
    /\ UNCHANGED <<verifyVars, spmvVars, padVars, runVars, ellVars, genVars, mainVars>>

\* mutant of MoreIterations: one dispatch more
MoreIterations_OneMore(j, n) == j <= n

\* j < iters (lines 562, 640 and 292)
MoreIterations(j, n) == j < n

\* mutant of AfterEnqueue: no clFinish after the dispatch
AfterEnqueue_NoWait(kern) == "timing"

\* what follows clEnqueueNDRangeKernel: clFinish (lines 568, 646, 298)
AfterEnqueue(kern) == "finish"

\* clEnqueueNDRangeKernel (lines 564-567, 642-645 and 294-297)
ConfEnqueue ==
    /\ c_pc = "iter"
    /\ MoreIterations(c_j, c_iters)
    /\ c_pending' = c_pending + 1
    /\ c_event' = [kernel |-> c_kernel, pass |-> c_k, iter |-> c_j,
                   complete |-> FALSE, elapsed |-> 0]
    /\ c_log' = Append(c_log, Done("enqueue", c_kernel, c_k, TRUE))
    /\ c_pc' = AfterEnqueue(c_kernel)
    /\ UNCHANGED <<c_fn, c_passes, c_iters, c_nnz, c_profile,
                   c_fillReturns, c_kernel, c_k, c_j, c_total,
                   c_iTransfer, c_oTransfer, c_dev, c_results, c_outcome>>
    /\ UNCHANGED <<verifyVars, spmvVars, padVars, runVars, ellVars, genVars, mainVars>>

\* clFinish (lines 568, 646 and 298): the dispatch has completed
ConfFinish ==
    /\ c_pc = "finish"
    /\ c_pending' = 0
    /\ c_event' = [c_event EXCEPT !.complete = TRUE,
                                  !.elapsed = DispatchTime(c_profile, c_kernel, c_k, c_j)]
    /\ c_log' = Append(c_log, Done("finish", c_kernel, c_k, TRUE))
    /\ c_pc' = "timing"
    /\ UNCHANGED <<c_fn, c_passes, c_iters, c_nnz, c_profile,
                   c_fillReturns, c_kernel, c_k, c_j, c_total,
                   c_iTransfer, c_oTransfer, c_dev, c_results, c_outcome>>
    /\ UNCHANGED <<verifyVars, spmvVars, padVars, runVars, ellVars, genVars, mainVars>>

\* kernelExec.FillTimingInfo(); scalarKernelTime +=
\* kernelExec.StartEndRuntime(); j++ (lines 570-571, 648-649, 300-301)
ConfTiming ==
    /\ c_pc = "timing"
    /\ c_total' = c_total + StartEndRuntime(c_event)
    /\ c_j' = c_j + 1
    /\ c_log' = Append(c_log, Done("timing", c_kernel, c_k, c_event.complete))
    /\ c_pc' = "iter"
    /\ UNCHANGED <<c_fn, c_passes, c_iters, c_nnz, c_profile,
                   c_fillReturns, c_kernel, c_k, c_iTransfer, c_oTransfer,
                   c_event, c_pending, c_dev, c_results, c_outcome>>
    /\ UNCHANGED <<verifyVars, spmvVars, padVars, runVars, ellVars, genVars, mainVars>>

\* lines 574-582, 652-659 and 304-311: the blocking read of the output,
\* clFinish, oTransferTime = outTransfer.FillTimingInfo()
ConfRead ==
    /\ c_pc = "iter"
    /\ ~MoreIterations(c_j, c_iters)
    /\ c_pending' = 0
    /\ c_oTransfer' = FillTimingInfo([elapsed |-> ReadTime(c_profile, c_kernel, c_k)],
                                     c_fillReturns)
    /\ c_log' = Append(c_log, Done("read", c_kernel, c_k, c_pending = 0))
    /\ c_pc' = "verify"
    /\ UNCHANGED <<c_fn, c_passes, c_iters, c_nnz, c_profile,
                   c_fillReturns, c_kernel, c_k, c_j, c_total,
                   c_iTransfer, c_event, c_dev, c_results, c_outcome>>
    /\ UNCHANGED <<verifyVars, spmvVars, padVars, runVars, ellVars, genVars, mainVars>>

\* if (! verifyResults(refOut, h_out, numRows, k)) return; (lines 585-588,
\* 662-665 and 314-316)
ConfVerify ==
    /\ c_pc = "verify"
    /\ \E passed \in BOOLEAN :
        /\ c_log' = Append(c_log, Done("verify", c_kernel, c_k, passed))
        /\ IF ReturnsOnVerify(IF passed THEN 1 ELSE 0)
           THEN ConfReturn("failed")
           ELSE /\ c_pc' = "report"
                /\ UNCHANGED c_outcome
    /\ UNCHANGED <<c_fn, c_passes, c_iters, c_nnz, c_profile,
                   c_fillReturns, c_kernel, c_k, c_j, c_total,
                   c_iTransfer, c_oTransfer, c_event, c_pending, c_dev,
                   c_results>>
    /\ UNCHANGED <<verifyVars, spmvVars, padVars, runVars, ellVars, genVars, mainVars>>

\* the two results of a pass: gflop / avgTime and gflop / (avgTime +
\* iTransferTime + oTransferTime), with gflop = 2 * numNonZeroes and
\* avgTime = total / iters; a time is kept as the fraction num / den
ReportResults(kern, k, nnz, total, n, iTransferTime, oTransferTime) ==
    <<[kernel |-> kern, pass |-> k, pcie |-> FALSE, gflop |-> 2 * nnz,
       time |-> [num |-> total, den |-> n]],
      [kernel |-> kern, pass |-> k, pcie |-> TRUE, gflop |-> 2 * nnz,
       time |-> [num |-> total + n * (iTransferTime + oTransferTime), den |-> n]]>>

\* lines 589-596, 666-672 and 317-329: the two calls of AddResult; k++
ConfReport ==
    /\ c_pc = "report"
    /\ c_results' = c_results \o ReportResults(c_kernel, c_k, c_nnz, c_total, c_iters,
                                               c_iTransfer, c_oTransfer)
    /\ c_log' = Append(c_log, Done("report", c_kernel, c_k, TRUE))
    /\ c_k' = c_k + 1
    /\ c_pc' = IF c_k + 1 < c_passes THEN "pass" ELSE AfterLoop(c_kernel)
    /\ UNCHANGED <<c_fn, c_passes, c_iters, c_nnz, c_profile,
                   c_fillReturns, c_kernel, c_j, c_total, c_iTransfer,
                   c_oTransfer, c_event, c_pending, c_dev, c_outcome>>
    /\ UNCHANGED <<verifyVars, spmvVars, padVars, runVars, ellVars, genVars, mainVars>>

\* csrTest, lines 598-634: the blocking write of h_vec over the output
\* buffer, the work-group size; below 32 everything is released and the
\* function returns, else the loop of the vector kernel starts
ConfGate ==
    /\ c_pc = "gate"
    /\ \E reported \in MaxLocalSizes :
        IF GateSkips(reported)
        THEN /\ c_dev' = Released(c_dev, BuffersOf(c_fn) \cup KernelsOf(c_fn) \cup {"prog"})
             /\ ConfReturn("skipped")
             /\ UNCHANGED <<c_kernel, c_k>>
        ELSE /\ c_kernel' = "CSR-Vector"
             /\ c_k' = 0
             /\ c_pc' = IF 0 < c_passes THEN "pass" ELSE "release"
             /\ UNCHANGED <<c_dev, c_outcome>>
    /\ UNCHANGED <<c_fn, c_passes, c_iters, c_nnz, c_profile,
                   c_fillReturns, c_j, c_total, c_iTransfer, c_oTransfer,
                   c_event, c_pending, c_results, c_log>>
    /\ UNCHANGED <<verifyVars, spmvVars, padVars, runVars, ellVars, genVars, mainVars>>

\* lines 674-691 and 331-350: everything is released, the function returns
ConfRelease ==
    /\ c_pc = "release"
    /\ c_dev' = Released(c_dev, BuffersOf(c_fn) \cup KernelsOf(c_fn) \cup {"prog"})
    /\ ConfReturn("completed")
    /\ UNCHANGED <<c_fn, c_passes, c_iters, c_nnz, c_profile,
                   c_fillReturns, c_kernel, c_k, c_j, c_total,
                   c_iTransfer, c_oTransfer, c_event, c_pending,
                   c_results, c_log>>
    /\ UNCHANGED <<verifyVars, spmvVars, padVars, runVars, ellVars, genVars, mainVars>>

ConfNext ==
    \/ ConfBegin
    \/ ConfBuffers
    \/ ConfTransfer
    \/ ConfKernels
    \/ ConfPassStart
    \/ ConfEnqueue
    \/ ConfFinish
    \/ ConfTiming
    \/ ConfRead
    \/ ConfVerify
    \/ ConfReport
    \/ ConfGate
    \/ ConfRelease

SpecConf == ConfInit /\ [][ConfNext]_vars

\* --------------------------------------- the random matrix of RunTest

\* the least value of the argument nRows explored
MinGenRows == -2

\* RunTest at line 774, with "mm_filename" set to "random"
GenInit ==
    /\ g_nRows \in MinGenRows .. MaxGenRows
    /\ g_maxval \in MaxvalSet
    /\ g_numRows = 0
    /\ g_nItems = 0
    /\ g_val = << >>
    /\ g_cols = << >>
    /\ g_rowDelimiters = << >>
    /\ g_pc = "generate"
    /\ g_outcome = "none"
    /\ VerifyIdle
    /\ SpmvIdle
    /\ PadIdle
    /\ RunIdle
    /\ EllIdle
    /\ ConfIdle
    /\ MainIdle

\* line 779: nItems = numRows * numRows / 100
NumItems(rows) == (rows * rows) \div 100

\* new T[n] of a negative n throws
NewThrows(n) == n < 0

\* initRandomMatrix: column indices in [0, dim) and row offsets that
\* partition the n entries; no row offset fits the array of a dim < 0
initRandomMatrix(n, dim) ==
    IF dim < 0
    THEN {[cols |-> << >>, rowDelimiters |-> << >>]}
    ELSE {[cols |-> cols, rowDelimiters |-> rd] :
            cols \in Vectors(n, 0 .. dim - 1), rd \in RowDelimiters(dim, n)}

\* lines 778-785: the dimension, the number of entries, the three arrays,
\* the values and the random structure
Generate ==
    /\ g_pc = "generate"
    /\ g_numRows' = g_nRows
    /\ g_nItems' = NumItems(g_nRows)
    /\ IF NewThrows(NumItems(g_nRows)) \/ NewThrows(g_nRows + 1)
       THEN /\ g_pc' = "thrown"
            /\ g_outcome' = "bad_array_new_length"
            /\ UNCHANGED <<g_val, g_cols, g_rowDelimiters>>
       ELSE /\ g_val' = fill(NumItems(g_nRows), g_maxval)
            /\ \E m \in initRandomMatrix(NumItems(g_nRows), g_nRows) :
                /\ g_cols' = m.cols
                /\ g_rowDelimiters' = m.rowDelimiters
            /\ g_pc' = "generated"
            /\ UNCHANGED g_outcome
    /\ UNCHANGED <<g_nRows, g_maxval>>
    /\ UNCHANGED <<verifyVars, spmvVars, padVars, runVars, ellVars, confVars, mainVars>>

\* lines 794-872: the remaining host data (h_vec = new float[numRows]) and
\* the three benchmarks
GenProceed ==
    /\ g_pc = "generated"
    /\ IF NewThrows(g_numRows)
       THEN /\ g_pc' = "thrown"
            /\ g_outcome' = "bad_array_new_length"
       ELSE /\ g_pc' = "benchmarks"
            /\ g_outcome' = "benchmarks run"
    /\ UNCHANGED <<g_nRows, g_maxval, g_numRows, g_nItems, g_val, g_cols,
                   g_rowDelimiters>>
    /\ UNCHANGED <<verifyVars, spmvVars, padVars, runVars, ellVars, confVars, mainVars>>

GenNext == Generate \/ GenProceed

SpecGen == GenInit /\ [][GenNext]_vars

\* ------------------------------------------------------------------ vecAdd
\* The vecAdd sample, main.cpp: CreateContext statement by statement, then
\* the steps of main, each with every result the OpenCL call can give.

\* bound: the largest number of platforms the platform query reports
MaxPlatforms == 2

\* memObjects[i], the name of the i-th buffer
MemName(i) == <<"memObjects[0]", "memObjects[1]", "memObjects[2]">>[i + 1]

\* the OpenCL objects main creates and CleanUp releases
Resources ==
    {"context", "commandQueue", "program", "kernel"} \cup {MemName(i) : i \in 0 .. 2}

\* a clCreate* call that succeeds: the object is live
Create(res, r) == [res EXCEPT ![r] = "live"]

\* a clRelease* call: a live object is released, the release of an object
\* that was never created or was released before is invalid
Release(res, r) == [res EXCEPT ![r] = IF @ = "live" THEN "released" ELSE "invalid"]

\* CleanUp, lines 294, 299, 302, 305, 308: a handle that is 0 is skipped
ReleaseIf(res, handle, r) == IF handle # 0 THEN Release(res, r) ELSE res

CleanUp_NoNullCheck(context, commandQueue, program, kernel_, memObjects, res) ==
    LET r0 == Release(res, MemName(0))
        r1 == Release(r0, MemName(1))
        r2 == Release(r1, MemName(2))
        r3 == Release(r2, "commandQueue")
        r4 == Release(r3, "kernel")
        r5 == Release(r4, "program")
    IN  Release(r5, "context")
\* CleanUp, lines 292-311: the three buffers, the queue, the kernel, the
\* program and the context, in this order; res is the state of the objects
\* before the call, the value is their state after it
CleanUp(context, commandQueue, program, kernel_, memObjects, res) ==
    LET r0 == ReleaseIf(res, memObjects[0], MemName(0))
        r1 == ReleaseIf(r0, memObjects[1], MemName(1))
        r2 == ReleaseIf(r1, memObjects[2], MemName(2))
        r3 == ReleaseIf(r2, commandQueue, "commandQueue")
        r4 == ReleaseIf(r3, kernel_, "kernel")
        r5 == ReleaseIf(r4, program, "program")
    IN  ReleaseIf(r5, context, "context")

\* main, "CleanUp(context, commandQueue, program, kernel_, memObjects);
\* return status;" with the handles main holds at that line
CleanUpAndReturn(status, commandQueue, program, kernel_, memObjects, res) ==
    /\ m_res' = CleanUp(m_context, commandQueue, program, kernel_, memObjects, res)
    /\ m_cleanUps' = m_cleanUps + 1
    /\ m_ret' = status
    /\ m_allOk' = (m_allOk /\ status = 0)
    /\ m_pc' = "returned"

\* CreateContext returns NULL (lines 183, 194, 201) and main returns 1
\* without CleanUp (lines 324-327)
NoContext ==
    /\ m_context' = 0
    /\ m_ret' = 1
    /\ m_allOk' = FALSE
    /\ m_pc' = "returned"

\* main, lines 315-321: every handle starts as 0
MainInit ==
    /\ m_pc = "CreateContext"
    /\ m_query = "none"
    /\ m_numPlateforms = 0
    /\ m_errNum = "none"
    /\ m_platformIds = << >>
    /\ m_reads = {}
    /\ m_firstPlatformId = "unset"
    /\ m_device = "none"
    /\ m_context = 0
    /\ m_commandQueue = 0
    /\ m_program = 0
    /\ m_kernel = 0
    /\ m_memObjects = [i \in 0 .. 2 |-> 0]
    /\ m_res = [r \in Resources |-> "none"]
    /\ m_cleanUps = 0
    /\ m_ret = -1
    /\ m_allOk = TRUE
    /\ VerifyIdle /\ SpmvIdle /\ PadIdle /\ RunIdle /\ EllIdle /\ ConfIdle /\ GenIdle

\* platformIds[i]: an entry the second query filled, an entry of the array
\* it did not fill, or memory outside the numPlateforms entries of the array
PlatformEntry(i) == IF i < m_numPlateforms THEN m_platformIds[i] ELSE "outside"

\* what a call of clGetDeviceIDs on a platform entry can do: on a platform
\* it succeeds or returns an error; on an indeterminate value it may also
\* take the process down
DeviceQueryResults(entry) ==
    IF entry = "platform" THEN {"ok", "error"} ELSE {"ok", "error", "crash"}

\* CreateContext, lines 167-173: the count query, whose status is not
\* looked at and which leaves numPlateforms uninitialised when it fails;
\* the array of numPlateforms entries; the second query, CL_INVALID_VALUE
\* for zero entries, which fills the array when it succeeds
PlatformQuery ==
    /\ m_pc = "CreateContext"
    /\ \E q \in {"ok", "failed"}, n \in 0 .. MaxPlatforms, e \in {"CL_SUCCESS", "error"} :
        /\ n = 0 => e = "error"
        /\ \E filled \in (IF e # "CL_SUCCESS" THEN {0} ELSE IF q = "ok" THEN {n} ELSE 0 .. n) :
            m_platformIds' = [i \in 0 .. n - 1 |-> IF i < filled THEN "platform" ELSE "uninit"]
        /\ m_query' = q
        /\ m_numPlateforms' = n
        /\ m_errNum' = e
    /\ m_pc' = "firstPlatformId"
    /\ UNCHANGED <<m_reads, m_firstPlatformId, m_device, m_context,
                   m_commandQueue, m_program, m_kernel, m_memObjects,
                   m_res, m_cleanUps, m_ret, m_allOk>>
    /\ UNCHANGED <<verifyVars, spmvVars, padVars, runVars, ellVars, confVars,
                   genVars>>

\* CreateContext, line 174: firstPlatformId = platformIds[1]
FirstPlatform ==
    /\ m_pc = "firstPlatformId"
    /\ m_reads' = m_reads \cup {1}
    /\ m_firstPlatformId' = PlatformEntry(1)
    /\ m_pc' = "display0"
    /\ UNCHANGED <<m_query, m_numPlateforms, m_errNum, m_platformIds,
                   m_device, m_context, m_commandQueue, m_program,
                   m_kernel, m_memObjects, m_res, m_cleanUps, m_ret,
                   m_allOk>>
    /\ UNCHANGED <<verifyVars, spmvVars, padVars, runVars, ellVars, confVars,
                   genVars>>

\* CreateContext, lines 177-178, and displayDeviceInfo, lines 117-152:
\* displayDeviceInfo(platformIds[i], CL_DEVICE_TYPE_ALL) for i = 0 and then
\* i = 1; an error of clGetDeviceIDs ends the process with exit(1)
DisplayDeviceInfo ==
    /\ m_pc \in {"display0", "display1"}
    /\ LET i == IF m_pc = "display0" THEN 0 ELSE 1
       IN  /\ m_reads' = m_reads \cup {i}
           /\ \E result \in DeviceQueryResults(PlatformEntry(i)) :
                /\ m_pc' = CASE result = "error" -> "exited"
                             [] result = "crash" -> "crashed"
                             [] OTHER -> IF i = 0 THEN "display1" ELSE "check"
                /\ m_allOk' = (m_allOk /\ result = "ok")
    /\ UNCHANGED <<m_query, m_numPlateforms, m_errNum, m_platformIds,
                   m_firstPlatformId, m_device, m_context, m_commandQueue,
                   m_program, m_kernel, m_memObjects, m_res, m_cleanUps,
                   m_ret>>
    /\ UNCHANGED <<verifyVars, spmvVars, padVars, runVars, ellVars, confVars,
                   genVars>>

\* CreateContext, lines 181-184: the status of the second query and the
\* count are looked at
PlatformCheck ==
    /\ m_pc = "check"
    /\ IF m_errNum # "CL_SUCCESS" \/ m_numPlateforms <= 0
       THEN NoContext
       ELSE /\ m_pc' = "clGetDeviceIDs"
            /\ UNCHANGED <<m_context, m_ret, m_allOk>>
    /\ UNCHANGED <<m_query, m_numPlateforms, m_errNum, m_platformIds,
                   m_reads, m_firstPlatformId, m_device, m_commandQueue,
                   m_program, m_kernel, m_memObjects, m_res, m_cleanUps>>
    /\ UNCHANGED <<verifyVars, spmvVars, padVars, runVars, ellVars, confVars,
                   genVars>>

\* CreateContext, lines 185-195: a GPU of firstPlatformId, else a CPU, else
\* NULL
GetDevice ==
    /\ m_pc = "clGetDeviceIDs"
    /\ \E gpu \in DeviceQueryResults(m_firstPlatformId),
          cpu \in DeviceQueryResults(m_firstPlatformId) :
        CASE gpu = "crash" \/ (gpu = "error" /\ cpu = "crash") ->
                /\ m_pc' = "crashed"
                /\ m_allOk' = FALSE
                /\ UNCHANGED <<m_device, m_context, m_ret>>
          [] gpu = "error" /\ cpu = "error" ->
                /\ NoContext
                /\ UNCHANGED m_device
          [] OTHER ->
                /\ m_device' = IF gpu = "ok" THEN "gpu" ELSE "cpu"
                /\ m_pc' = "clCreateContext"
                /\ UNCHANGED <<m_context, m_ret, m_allOk>>
    /\ UNCHANGED <<m_query, m_numPlateforms, m_errNum, m_platformIds,
                   m_reads, m_firstPlatformId, m_commandQueue, m_program,
                   m_kernel, m_memObjects, m_res, m_cleanUps>>
    /\ UNCHANGED <<verifyVars, spmvVars, padVars, runVars, ellVars, confVars,
                   genVars>>

\* CreateContext, lines 198-203, and main, lines 323-327
CreateContext ==
    /\ m_pc = "clCreateContext"
    /\ \E ok \in BOOLEAN :
        IF ok
        THEN /\ m_context' = 1
             /\ m_res' = Create(m_res, "context")
             /\ m_pc' = "CreateCommandQueue"
             /\ UNCHANGED <<m_ret, m_allOk>>
        ELSE /\ NoContext
             /\ UNCHANGED m_res
    /\ UNCHANGED <<m_query, m_numPlateforms, m_errNum, m_platformIds,
                   m_reads, m_firstPlatformId, m_device, m_commandQueue,
                   m_program, m_kernel, m_memObjects, m_cleanUps>>
    /\ UNCHANGED <<verifyVars, spmvVars, padVars, runVars, ellVars, confVars,
                   genVars>>

\* CreateCommandQueue, lines 209-220, and main, lines 329-333
CreateCommandQueue ==
    /\ m_pc = "CreateCommandQueue"
    /\ \E ok \in BOOLEAN :
        IF ok
        THEN /\ m_commandQueue' = 1
             /\ m_res' = Create(m_res, "commandQueue")
             /\ m_pc' = "CreateProgram"
             /\ UNCHANGED <<m_cleanUps, m_ret, m_allOk>>
        ELSE /\ m_commandQueue' = 0
             /\ CleanUpAndReturn(1, 0, m_program, m_kernel, m_memObjects, m_res)
    /\ UNCHANGED <<m_query, m_numPlateforms, m_errNum, m_platformIds,
                   m_reads, m_firstPlatformId, m_device, m_context,
                   m_program, m_kernel, m_memObjects>>
    /\ UNCHANGED <<verifyVars, spmvVars, padVars, runVars, ellVars, confVars,
                   genVars>>

\* the results of CreateProgram's calls: clCreateProgramWithSource returns
\* NULL (so it does for the NULL source of an unreadable file), or
\* clBuildProgram fails, or the program is built
ProgramResults == {"nosource", "buildfails", "built"}

\* CreateProgram, lines 253-274: the handle it returns and the state of
\* the objects after it; a program that does not build is released at
\* line 270 and NULL is returned
CreateProgram(result, res) ==
    CASE result = "nosource" -> [program |-> 0, res |-> res]
      [] result = "buildfails" ->
            [program |-> 0, res |-> Release(Create(res, "program"), "program")]
      [] OTHER -> [program |-> 1, res |-> Create(res, "program")]

\* main, lines 335-339
MainProgram ==
    /\ m_pc = "CreateProgram"
    /\ \E result \in ProgramResults :
        LET made == CreateProgram(result, m_res)
        IN  /\ m_program' = made.program
            /\ IF made.program = 0
               THEN CleanUpAndReturn(1, m_commandQueue, 0, m_kernel, m_memObjects,
                                     made.res)
               ELSE /\ m_res' = made.res
                    /\ m_pc' = "clCreateKernel"
                    /\ UNCHANGED <<m_cleanUps, m_ret, m_allOk>>
    /\ UNCHANGED <<m_query, m_numPlateforms, m_errNum, m_platformIds,
                   m_reads, m_firstPlatformId, m_device, m_context,
                   m_commandQueue, m_kernel, m_memObjects>>
    /\ UNCHANGED <<verifyVars, spmvVars, padVars, runVars, ellVars, confVars,
                   genVars>>

\* main, lines 340-346
CreateKernel ==
    /\ m_pc = "clCreateKernel"
    /\ \E ok \in BOOLEAN :
        IF ok
        THEN /\ m_kernel' = 1
             /\ m_res' = Create(m_res, "kernel")
             /\ m_pc' = "CreateMemObjects"
             /\ UNCHANGED <<m_cleanUps, m_ret, m_allOk>>
        ELSE /\ m_kernel' = 0
             /\ CleanUpAndReturn(1, m_commandQueue, m_program, 0, m_memObjects, m_res)
    /\ UNCHANGED <<m_query, m_numPlateforms, m_errNum, m_platformIds,
                   m_reads, m_firstPlatformId, m_device, m_context,
                   m_commandQueue, m_program, m_memObjects>>
    /\ UNCHANGED <<verifyVars, spmvVars, padVars, runVars, ellVars, confVars,
                   genVars>>

\* the state of the objects once the buffers with a handle in made exist
WithBuffers(res, made) ==
    [r \in Resources |->
        IF \E i \in 0 .. 2 : r = MemName(i) /\ made[i] # 0 THEN "live" ELSE res[r]]

\* CreateMemObjects, lines 278-288, and main, lines 355-358: each of the
\* three clCreateBuffer calls returns a buffer or NULL, the function
\* returns false when any of them is NULL
CreateMemObjects ==
    /\ m_pc = "CreateMemObjects"
    /\ \E made \in [0 .. 2 -> {0, 1}] :
        /\ m_memObjects' = made
        /\ IF \E i \in 0 .. 2 : made[i] = 0
           THEN CleanUpAndReturn(1, m_commandQueue, m_program, m_kernel, made,
                                 WithBuffers(m_res, made))
           ELSE /\ m_res' = WithBuffers(m_res, made)
                /\ m_pc' = "clSetKernelArg"
                /\ UNCHANGED <<m_cleanUps, m_ret, m_allOk>>
    /\ UNCHANGED <<m_query, m_numPlateforms, m_errNum, m_platformIds,
                   m_reads, m_firstPlatformId, m_device, m_context,
                   m_commandQueue, m_program, m_kernel>>
    /\ UNCHANGED <<verifyVars, spmvVars, padVars, runVars, ellVars, confVars,
                   genVars>>

\* main: an OpenCL call whose status is checked, followed by CleanUp and
\* return 1 when it is not CL_SUCCESS
CheckedCall(at, next) ==
    /\ m_pc = at
    /\ \E errNum \in {"CL_SUCCESS", "error"} :
        IF errNum # "CL_SUCCESS"
        THEN CleanUpAndReturn(1, m_commandQueue, m_program, m_kernel, m_memObjects,
                              m_res)
        ELSE /\ m_pc' = next
             /\ UNCHANGED <<m_res, m_cleanUps, m_ret, m_allOk>>
    /\ UNCHANGED <<m_query, m_numPlateforms, m_errNum, m_platformIds,
                   m_reads, m_firstPlatformId, m_device, m_context,
                   m_commandQueue, m_program, m_kernel, m_memObjects>>
    /\ UNCHANGED <<verifyVars, spmvVars, padVars, runVars, ellVars, confVars,
                   genVars>>

\* main, lines 360-368: the three clSetKernelArg calls, one check
SetKernelArgs == CheckedCall("clSetKernelArg", "clEnqueueNDRangeKernel")

\* main, lines 369-377
EnqueueKernel == CheckedCall("clEnqueueNDRangeKernel", "clEnqueueReadBuffer")

\* main, lines 379-384
ReadResult == CheckedCall("clEnqueueReadBuffer", "success")

\* main, lines 385-390: the result is printed, CleanUp, return 0
MainSuccess ==
    /\ m_pc = "success"
    /\ CleanUpAndReturn(0, m_commandQueue, m_program, m_kernel, m_memObjects, m_res)
    /\ UNCHANGED <<m_query, m_numPlateforms, m_errNum, m_platformIds,
                   m_reads, m_firstPlatformId, m_device, m_context,
                   m_commandQueue, m_program, m_kernel, m_memObjects>>
    /\ UNCHANGED <<verifyVars, spmvVars, padVars, runVars, ellVars, confVars,
                   genVars>>

MainNext ==
    \/ PlatformQuery
    \/ FirstPlatform
    \/ DisplayDeviceInfo
    \/ PlatformCheck
    \/ GetDevice
    \/ CreateContext
    \/ CreateCommandQueue
    \/ MainProgram
    \/ CreateKernel
    \/ CreateMemObjects
    \/ SetKernelArgs
    \/ EnqueueKernel
    \/ ReadResult
    \/ MainSuccess

SpecMain == MainInit /\ [][MainNext]_vars

\* ============================================================= properties

RECURSIVE SumUpTo(_, _, _)
\* the float sum of the products of entries lo .. j-1 of the matrix, added
\* one after the other from lo upwards
SumUpTo(in, lo, j) ==
    IF j <= lo THEN 0
    ELSE FAdd(SumUpTo(in, lo, j - 1), FMul(in.val[j - 1], in.vec[in.cols[j - 1]]))

\* the number of results configuration c added for kernel kern
CountEntries(c, kern) ==
    Cardinality({n \in 1 .. Len(resultDB) :
                    resultDB[n].cfg = c /\ resultDB[n].kernel = kern})

\* C1: once verifyResults has returned false for pass kf of a kernel of a
\* configuration, the database holds no result of that pass or of a later
\* pass of the configuration (none of the vector kernel after a failure of
\* the scalar kernel), the kernel was dispatched for the passes 0 .. kf only
\* and no other kernel of the configuration is dispatched afterwards.
C1_FailFastPerConfiguration ==
    \A c \in Configs :
        failedAt[c] # << >> =>
            LET kern == failedAt[c][1]
                kf == failedAt[c][2]
            IN  /\ \A n \in 1 .. Len(resultDB) :
                    resultDB[n].cfg = c =>
                        IF resultDB[n].kernel = kern
                        THEN resultDB[n].pass < kf
                        ELSE kern = "CSR-Vector" /\ resultDB[n].kernel = "CSR-Scalar"
                /\ dispatchCount[c][kern] = (kf + 1) * iters
                /\ verifyCount[c][kern] = kf + 1
                /\ kern = "CSR-Scalar" => dispatchCount[c]["CSR-Vector"] = 0
                /\ kern = "CSR-Vector" => dispatchCount[c]["CSR-Scalar"] = passes * iters
                /\ outcome[c] = "failed"

\* a run that is over in which the second pass of a configuration failed
\* verification and another configuration ran afterwards
C1_Witness ==
    /\ pc = "done"
    /\ \E c \in {1, 2} :
        /\ failedAt[c] # << >>
        /\ failedAt[c][2] = 1
        /\ outcome[c + 1] \in {"failed", "completed", "skipped"}

\* C2 as stated: at the end of the run the database holds no result of a
\* configuration one of whose passes failed verification.
C2_AsStated ==
    pc = "done" =>
        \A c \in Configs :
            failedAt[c] # << >> =>
                \A n \in 1 .. Len(resultDB) : resultDB[n].cfg # c

\* C2, amended: at the end of the run the database holds, of a
\* configuration whose pass kf of kernel kern failed verification, no result
\* of that pass or a later one, and exactly the results of the passes that
\* passed before: two for each of the kf earlier passes of kern and, when
\* kern is the vector kernel, two for each pass of the scalar kernel.
C2_FailedConfigurationKeepsEarlierResultsOnly ==
    pc = "done" =>
        \A c \in Configs :
            failedAt[c] # << >> =>
                LET kern == failedAt[c][1]
                    kf == failedAt[c][2]
                IN  /\ CountEntries(c, kern) = 2 * kf
                    /\ \A other \in Kernels \ {kern} :
                        CountEntries(c, other) =
                            IF kern = "CSR-Vector" /\ other = "CSR-Scalar"
                            THEN 2 * passes ELSE 0
                    /\ \A n \in 1 .. Len(resultDB) :
                        (resultDB[n].cfg = c /\ resultDB[n].kernel = kern) =>
                            resultDB[n].pass < kf

\* the end of a run in which the vector kernel of the first configuration
\* failed in its second pass: the results of both scalar passes and of the
\* first vector pass are in the database
C2_Witness ==
    /\ pc = "done"
    /\ passes = 2
    /\ failedAt[1] = <<"CSR-Vector", 1>>
    /\ CountEntries(1, "CSR-Scalar") = 4
    /\ CountEntries(1, "CSR-Vector") = 2

EllHostArrays == {"h_rowLengths", "h_valcm", "h_colscm"}

\* C3: when ellPackTest has returned after it allocated h_rowLengths,
\* h_valcm and h_colscm (normal completion or the return on a failed
\* verification), all three arrays have been released.
C3_EllHostArraysReleasedOnReturn ==
    (/\ outcome[3] \in {"failed", "completed"}
     /\ \A a \in EllHostArrays : heap[a] # "none")
        => \A a \in EllHostArrays : heap[a] = "freed"

\* C4: every configuration is started, in the order csrTest, csrTest on
\* padded data, ellPackTest, whatever the outcome of the ones before it; each
\* is called with the reference vector spmvCpu computed from the input
\* matrix and h_vec, and with the input matrix (the padded copy of it for
\* the second).
C4_EveryConfigurationStarts ==
    /\ pc = "done" => \A c \in Configs : outcome[c] \notin {"notstarted", "running"}
    /\ \A c \in Configs :
        outcome[c] # "notstarted" =>
            /\ \A b \in 1 .. c - 1 : outcome[b] \notin {"notstarted", "running"}
            /\ args[c].refOut = refOut
            /\ args[c].vec = h_vec
            /\ \A i \in 0 .. numRows - 1 :
                refOut[i] = SumUpTo([val |-> h_val, cols |-> h_cols, vec |-> h_vec],
                                    h_rowDelimiters[i], h_rowDelimiters[i + 1])
            /\ args[c].val = IF c = 2 THEN h_valPad ELSE h_val
            /\ args[c].cols = IF c = 2 THEN h_colsPad ELSE h_cols
            /\ args[c].rowDelimiters =
                    IF c = 2 THEN h_rowDelimitersPad ELSE h_rowDelimiters

\* the end of a run in which the first two configurations failed
\* verification and the third ran all the same
C4_Witness ==
    /\ pc = "done"
    /\ outcome[1] = "failed"
    /\ outcome[2] = "failed"
    /\ outcome[3] = "completed"

\* C5: when the work-group size reported for the vector kernel is below
\* 32, csrTest has returned as skipped, not failed: the vector kernel was
\* never dispatched, verifyResults was never called for it, the database
\* holds no result of it and still holds the two results of every scalar
\* pass.
C5_CapabilityGate ==
    \A c \in {1, 2} :
        (maxLocal[c] # -1 /\ maxLocal[c] < 32) =>
            /\ outcome[c] = "skipped"
            /\ cfg # c
            /\ failedAt[c] = << >>
            /\ dispatchCount[c]["CSR-Vector"] = 0
            /\ verifyCount[c]["CSR-Vector"] = 0
            /\ CountEntries(c, "CSR-Vector") = 0
            /\ CountEntries(c, "CSR-Scalar") = 2 * passes

\* the end of a run whose first configuration skipped the vector kernel
\* after two scalar passes
C5_Witness ==
    /\ pc = "done"
    /\ passes = 2
    /\ maxLocal[1] = 31
    /\ outcome[1] = "skipped"
    /\ CountEntries(1, "CSR-Scalar") = 4
    /\ CountEntries(1, "CSR-Vector") = 0

\* the relative error of the documentation, |ref - dev| / |ref|, exceeds
\* the tolerance
DocMismatch(ref, dev) == GtTol(FDiv(Abs(FSub(ref, dev)), Abs(ref)))

\* C6: verifyResults returns failure if and only if some index has a
\* relative error |reference[i] - candidate[i]| / |reference[i]| above the
\* tolerance, whatever the sign of reference[i], and it returns only after
\* the scan has covered every index.
C6_FailsIffSomeEntryExceedsTolerance ==
    v_pc = "returned" =>
        /\ v_i = v_size
        /\ (v_ret = 0) <=> (\E i \in 0 .. v_size - 1 : DocMismatch(v_cpu[i], v_gpu[i]))

\* C7: an entry whose reference is exactly zero is counted as a mismatch
\* unless the candidate entry equals it: the turn of the loop at such an
\* entry clears passed when the candidate differs and leaves passed alone
\* when it is equal; a zero reference with a non-zero candidate makes the
\* call return failure.
C7_ZeroReferencePolicy ==
    /\ [][(v_pc = "loop" /\ v_i < v_size /\ v_cpu[v_i] = 0) =>
            (v_passed' = IF v_gpu[v_i] = v_cpu[v_i] THEN v_passed ELSE 0)]_vars
    /\ [](v_pc = "returned" =>
            ((\E i \in 0 .. v_size - 1 : v_cpu[i] = 0 /\ v_gpu[i] # 0) => v_ret = 0))

\* a call that passed although an entry has a zero reference (and a zero
\* candidate) beside an entry with a non-zero reference
C7_Witness ==
    /\ v_pc = "returned"
    /\ v_ret = 1
    /\ \E i, j \in 0 .. v_size - 1 :
        v_cpu[i] = 0 /\ v_gpu[i] = 0 /\ v_cpu[j] # 0

\* C8: comparing a vector of non-zero entries, positive or negative, with
\* itself passes.
C8_SelfComparisonPasses ==
    (/\ v_pc = "returned"
     /\ v_gpu = v_cpu
     /\ \A i \in 0 .. v_size - 1 : v_cpu[i] # 0) => v_ret = 1

\* a self-comparison of a vector with a negative and a positive entry
C8_Witness ==
    /\ v_pc = "returned"
    /\ v_gpu = v_cpu
    /\ v_ret = 1
    /\ \E i, j \in 0 .. v_size - 1 : v_cpu[i] < 0 /\ v_cpu[j] > 0

\* C9: after spmvCpu, out[i] is the sum over the row's slice of
\* val[j] * vec[cols[j]] accumulated in ascending j, 0 for an empty slice;
\* the arguments are as they were; the 4 x 4 diagonal example gives
\* [1, 2, 3, 4].
C9_SpmvCpuComputesRowSums ==
    /\ [](s_pc = "returned" =>
            /\ DOMAIN s_out = 0 .. s_in.dim - 1
            /\ \A i \in 0 .. s_in.dim - 1 :
                /\ s_out[i] = SumUpTo(s_in, s_in.rowDelimiters[i],
                                      s_in.rowDelimiters[i + 1])
                /\ (s_in.rowDelimiters[i] = s_in.rowDelimiters[i + 1] => s_out[i] = 0)
            /\ (s_in = DiagonalInput => s_out = [i \in 0 .. 3 |-> i + 1]))
    /\ [][s_in' = s_in]_vars

\* a finished product of a row whose sum depends on the order of the
\* additions: 2^24 + 1 + 1 is 2^24 in ascending order
C9_Witness ==
    /\ s_pc = "returned"
    /\ \E i \in 0 .. s_in.dim - 1 :
        /\ s_in.rowDelimiters[i + 1] - s_in.rowDelimiters[i] = 3
        /\ s_in.val[s_in.rowDelimiters[i]] = FloatExact
        /\ s_in.val[s_in.rowDelimiters[i] + 1] = 1
        /\ s_in.val[s_in.rowDelimiters[i] + 2] = 1
        /\ \A j \in 0 .. 2 : s_in.vec[s_in.cols[s_in.rowDelimiters[i] + j]] = 1
        /\ s_out[i] = FloatExact

\* C10 as stated: the padded row count is numRows + (padFactor - numRows %
\* padFactor) when numRows is no multiple of padFactor and numRows when it
\* is one, the smallest multiple of padFactor that is >= numRows.
C10_AsStated ==
    p_pc = "done" =>
        /\ p_paddedSize = IF p_numRows % p_padFactor # 0
                          THEN p_numRows + (p_padFactor - (p_numRows % p_padFactor))
                          ELSE p_numRows
        /\ p_paddedSize % p_padFactor = 0
        /\ p_paddedSize >= p_numRows
        /\ p_paddedSize - p_padFactor < p_numRows

\* C10, amended: the padded row count is the smallest multiple of padFactor
\* that is > numRows: numRows + (padFactor - (numRows % padFactor)) when
\* numRows is no multiple of padFactor, and numRows + padFactor when it is
\* one.
C10_PaddedSizeIsNextMultipleAbove ==
    p_pc = "done" =>
        /\ p_paddedSize % p_padFactor = 0
        /\ p_paddedSize > p_numRows
        /\ p_paddedSize - p_padFactor <= p_numRows
        /\ (p_numRows % p_padFactor # 0 =>
                p_paddedSize = p_numRows + (p_padFactor - (p_numRows % p_padFactor)))
        /\ (p_numRows % p_padFactor = 0 => p_paddedSize = p_numRows + p_padFactor)

\* a row count that is a multiple of the pad factor already, padded by a
\* whole block
C10_Witness ==
    /\ p_pc = "done"
    /\ p_numRows = 32
    /\ p_padFactor = 32
    /\ p_paddedSize = 64

\* C11: for every numRows > 0 and padFactor > 0 the padded row count is
\* >= numRows and a multiple of padFactor; with padFactor 32 and numRows 33
\* it is 64.
C11_PaddedSizeCoversRowsInWholeBlocks ==
    p_pc = "done" =>
        /\ p_paddedSize >= p_numRows
        /\ p_paddedSize % p_padFactor = 0
        /\ (p_numRows = 33 /\ p_padFactor = 32 => p_paddedSize = 64)

\* 33 rows padded in blocks of 32
C11_Witness ==
    /\ p_pc = "done"
    /\ p_numRows = 33
    /\ p_padFactor = 32
    /\ p_paddedSize = 64

\* the number of rows of the column major layout: paddedSize when padded,
\* numRows otherwise
LayoutRows == IF e_in.padded THEN e_in.paddedSize ELSE e_in.numRows

\* the slots of the layout of stride rows hold the matrix: slot k of row r
\* is at index k * stride + r; the slots 0 .. rowLengths[r] - 1 of a row are
\* its entries in their order, every other slot is value 0, column 0
HoldsMatrix(stride) ==
    /\ DOMAIN e_valcm = 0 .. e_maxrl * stride - 1
    /\ DOMAIN e_colscm = 0 .. e_maxrl * stride - 1
    /\ \A r \in 0 .. stride - 1 : \A k \in 0 .. e_maxrl - 1 :
        IF k < e_rowLengths[r]
        THEN /\ e_valcm[k * stride + r] = e_in.val[e_in.rowDelimiters[r] + k]
             /\ e_colscm[k * stride + r] = e_in.cols[e_in.rowDelimiters[r] + k]
        ELSE /\ e_valcm[k * stride + r] = 0
             /\ e_colscm[k * stride + r] = 0

\* C12 as stated: the column major arrays have maxRowLength * numRowsPadded
\* slots, slot k of row r at index k * numRowsPadded + r; the slots
\* 0 .. rowLengths[r] - 1 of row r are the row's entries, every other slot
\* is value 0, column 0.
C12_AsStated ==
    e_pc = "converted" => HoldsMatrix(e_in.paddedSize)

\* C12, amended: the same with the number of rows of the layout, cmSize,
\* in place of numRowsPadded: paddedSize when ellPackTest is called with
\* padded set, numRows when it is not.
C12_ColMajorRoundTrip ==
    e_pc = "converted" => /\ e_cmSize = LayoutRows
                          /\ HoldsMatrix(LayoutRows)

\* a layout without padding of a matrix with a row of two entries and a
\* shorter row
C12_Witness ==
    /\ e_pc = "converted"
    /\ ~e_in.padded
    /\ e_in.numRows = 2
    /\ e_maxrl = 2
    /\ \E r \in 0 .. 1 : e_rowLengths[r] < 2
    /\ e_valcm[2] # 0

\* C13: RunTest computes the reference once, before the first
\* configuration starts: no configuration has started while refOut is not
\* computed, no step after that writes refOut, the arrays of the matrix or
\* h_vec, and every call of verifyResults of every configuration is handed
\* that refOut, the product of the matrix and h_vec.
C13_ReferenceComputedOnce ==
    /\ [](pc = "RunTest" =>
            /\ refOut = << >>
            /\ \A c \in Configs : outcome[c] = "notstarted" /\ args[c] = << >>)
    /\ [][pc # "RunTest" =>
            /\ refOut' = refOut
            /\ h_val' = h_val
            /\ h_cols' = h_cols
            /\ h_rowDelimiters' = h_rowDelimiters
            /\ h_vec' = h_vec]_vars
    /\ [](pc = "verify" =>
            /\ args[cfg].refOut = refOut
            /\ args[cfg].vec = h_vec
            /\ refOut = spmvCpu(h_val, h_cols, h_rowDelimiters, h_vec, numRows))

\* the last pass of ellPackTest is about to be verified after both calls
\* of csrTest ran all their passes
C13_Witness ==
    /\ pc = "verify"
    /\ cfg = 3
    /\ k_pass = 1
    /\ outcome[1] = "completed"
    /\ outcome[2] = "completed"
    /\ refOut # h_vec

RECURSIVE SumDispatch(_, _, _, _)
\* the sum of the elapsed times of the first n dispatches of pass k of a
\* kernel
SumDispatch(profile, kern, k, n) ==
    IF n = 0 THEN 0
    ELSE SumDispatch(profile, kern, k, n - 1) + DispatchTime(profile, kern, k, n - 1)

\* what was done so far, of one kind
DoneOf(op) == LET IsOp(e) == e.op = op IN SelectSeq(c_log, IsOp)

\* the verifications so far that passed
DonePassed == LET Passed(e) == e.op = "verify" /\ e.ok IN SelectSeq(c_log, Passed)

\* the fraction time is the whole number of time units num divided by den
IsFraction(time, num, den) == time.num * den = num * time.den

\* C14: for each pass that passes verification exactly two results are
\* recorded: 2 * nnz over the mean kernel time, and 2 * nnz over the mean
\* kernel time plus the sum of the four transfer times to the device plus
\* the elapsed time of the read of the output of that pass.
C14_ReportFormulas ==
    /\ Len(c_results) = 2 * Len(DoneOf("report"))
    /\ Len(DoneOf("report")) =
            Len(DonePassed) - (IF c_pc = "report" THEN 1 ELSE 0)
    /\ \A m \in 1 .. Len(DoneOf("report")) :
        LET e == DoneOf("report")[m]
            compute == c_results[2 * m - 1]
            withTransfer == c_results[2 * m]
            kernelTime == SumDispatch(c_profile, e.kernel, e.pass, c_iters)
            t == TransferTimes(c_profile)
            inputTransferTime == t[1] + t[2] + t[3] + t[4]
            outputTransferTime == ReadTime(c_profile, e.kernel, e.pass)
        IN  /\ DonePassed[m].kernel = e.kernel /\ DonePassed[m].pass = e.pass
            /\ compute.kernel = e.kernel /\ compute.pass = e.pass
            /\ withTransfer.kernel = e.kernel /\ withTransfer.pass = e.pass
            /\ ~compute.pcie /\ withTransfer.pcie
            /\ compute.gflop = 2 * c_nnz /\ withTransfer.gflop = 2 * c_nnz
            /\ IsFraction(compute.time, kernelTime, c_iters)
            /\ IsFraction(withTransfer.time,
                          kernelTime + c_iters * (inputTransferTime + outputTransferTime),
                          c_iters)

\* C15: for every numRows > 0 the generated matrix has exactly
\* floor(numRows * numRows / 100) entries, all of value maxval; for
\* numRows <= 0 the generation fails with InvalidDimension and no benchmark
\* is run.
C15_RandomGeneration ==
    g_pc \in {"generated", "thrown", "benchmarks"} =>
        IF g_nRows > 0
        THEN /\ g_pc # "thrown"
             /\ g_nItems = (g_nRows * g_nRows) \div 100
             /\ DOMAIN g_val = 0 .. g_nItems - 1
             /\ \A n \in DOMAIN g_val : g_val[n] = g_maxval
        ELSE /\ g_pc = "thrown"
             /\ g_outcome = "InvalidDimension"

\* what was done so far in pass k of a kernel
PassLog(kern, k) ==
    LET InPass(e) == e.kernel = kern /\ e.pass = k IN SelectSeq(c_log, InPass)

\* what a pass of n iterations consists of, in order: n dispatches, each
\* with its wait and its timing, the read of the output, the verification,
\* the report
PassPattern(n) ==
    [i \in 1 .. 3 * n + 3 |->
        IF i <= 3 * n
        THEN (CASE i % 3 = 1 -> "enqueue" [] i % 3 = 2 -> "finish" [] OTHER -> "timing")
        ELSE (CASE i = 3 * n + 1 -> "read" [] i = 3 * n + 2 -> "verify"
                [] OTHER -> "report")]

\* the order of the loops of a function
KernelRank(kern) == IF kern = "CSR-Vector" THEN 2 ELSE 1

\* C16: in every configuration each pass consists of exactly iters kernel
\* dispatches, then one read of the output, then one call of
\* verifyResults, then (only if it passed) one report; the passes follow
\* one another, a failed verification ends the configuration, and nothing
\* is dispatched before the input transfers have completed.
C16_PassStructure ==
    /\ \A kern \in Kernels : \A k \in 0 .. c_passes :
        LET done == PassLog(kern, k)
            full == 3 * c_iters + 3
        IN  /\ Len(done) <= full
            /\ k >= c_passes => Len(done) = 0
            /\ \A i \in 1 .. Len(done) : done[i].op = PassPattern(c_iters)[i]
            /\ Len(done) = full => done[full - 1].ok
            /\ (k > 0 /\ Len(done) > 0) => Len(PassLog(kern, k - 1)) = full
    /\ \A n \in 1 .. Len(c_log) :
        /\ (c_log[n].op = "transferred") = (n = 1)
        /\ (c_log[n].op = "verify" /\ ~c_log[n].ok) => n = Len(c_log)
        /\ \A m \in 2 .. n :
            /\ KernelRank(c_log[m].kernel) <= KernelRank(c_log[n].kernel)
            /\ c_log[m].kernel = c_log[n].kernel => c_log[m].pass <= c_log[n].pass

\* csrTest has run two passes of two iterations of both kernels
C16_Witness ==
    /\ c_pc = "returned"
    /\ c_fn = "csrTest"
    /\ c_outcome = "completed"
    /\ c_passes = 2
    /\ c_iters = 2
    /\ Len(PassLog("CSR-Vector", 1)) = 9
    /\ Len(PassLog("CSR-Scalar", 0)) = 9

\* C17: the kernel time of the report of pass k of a kernel is the sum of
\* the elapsed times of the iters dispatches of that pass, divided by
\* iters; the accumulator holds the times of the dispatches of the
\* current pass only.
C17_MeanKernelTimeOfThePassOnly ==
    /\ c_pc \in {"iter", "finish", "timing", "verify", "report"} =>
            c_total = SumDispatch(c_profile, c_kernel, c_k, c_j)
    /\ \A m \in 1 .. Len(c_results) :
        ~c_results[m].pcie =>
            /\ c_results[m].time.den = c_iters
            /\ c_results[m].time.num =
                    SumDispatch(c_profile, c_results[m].kernel, c_results[m].pass,
                                c_iters)

\* the second pass of the vector kernel is reported, after passes whose
\* dispatches took other times
C17_Witness ==
    /\ c_profile = "varied"
    /\ c_iters = 2
    /\ \E m \in 1 .. Len(c_results) :
        /\ c_results[m].kernel = "CSR-Vector"
        /\ c_results[m].pass = 1
        /\ ~c_results[m].pcie
        /\ c_results[m].time.num = 11

\* C18: every kernel dispatch is followed by a wait for its completion
\* before anything else is done: at most one dispatch is in flight, none
\* when the next dispatch, a transfer or a timing read is about to be
\* made, and the time of an iteration is read from the completed event of
\* that iteration.
C18_NoPipelining ==
    /\ c_pending <= 1
    /\ c_pc # "finish" => c_pending = 0
    /\ c_pc = "timing" =>
        /\ c_event.complete
        /\ c_event.kernel = c_kernel /\ c_event.pass = c_k /\ c_event.iter = c_j
    /\ \A n \in 1 .. Len(c_log) :
        /\ (c_log[n].op = "enqueue" /\ n < Len(c_log)) => c_log[n + 1].op = "finish"
        /\ c_log[n].op \in {"timing", "read"} => c_log[n].ok

\* the second dispatch of a pass is in flight, the first was waited for
\* and timed
C18_Witness ==
    /\ c_pc = "finish"
    /\ c_pending = 1
    /\ c_j = 1
    /\ Len(c_log) >= 4
    /\ c_log[Len(c_log) - 1].op = "timing"
    /\ c_log[Len(c_log) - 2].op = "finish"

\* C19: rowLengths[i] = rowDelimiters[i + 1] - rowDelimiters[i] for every
\* row i < numRows and 0 for every i in [numRows, paddedSize); maxRowLength
\* is the largest of them, 0 for a matrix without entries; for rows of 1,
\* 3, 0 and 2 entries it is 3.
C19_RowMetadata ==
    e_pc \in {"lengths", "converted"} =>
        /\ DOMAIN e_rowLengths = 0 .. e_in.paddedSize - 1
        /\ \A i \in 0 .. e_in.paddedSize - 1 :
            /\ i < e_in.numRows =>
                e_rowLengths[i] = e_in.rowDelimiters[i + 1] - e_in.rowDelimiters[i]
            /\ i >= e_in.numRows => e_rowLengths[i] = 0
            /\ e_rowLengths[i] <= e_maxrl
        /\ \E i \in 0 .. e_in.paddedSize - 1 : e_rowLengths[i] = e_maxrl
        /\ e_in.numNonZeroes = 0 => e_maxrl = 0
        /\ (\A i \in 0 .. 3 : e_in.numRows = 4 /\
                e_in.rowDelimiters[i + 1] - e_in.rowDelimiters[i] = <<1, 3, 0, 2>>[i + 1])
            => e_maxrl = 3

\* the row lengths of the matrix with rows of 1, 3, 0 and 2 entries
C19_Witness ==
    /\ e_pc = "lengths"
    /\ e_in.numRows = 4
    /\ e_in.paddedSize = 6
    /\ \A i \in 0 .. 5 : e_rowLengths[i] = <<1, 3, 0, 2, 0, 0>>[i + 1]
    /\ e_maxrl = 3

\* C20: when csrTest or ellPackTest has returned, on whatever path, every
\* device object it created (the program, each kernel, each of the five
\* buffers) has been released exactly once: none is still live and no
\* release was made of an object that was not live.
C20_DeviceObjectsReleasedOnce ==
    /\ \A o \in DOMAIN c_dev : c_dev[o] # "invalid"
    /\ c_pc = "returned" => \A o \in DOMAIN c_dev : c_dev[o] # "live"

\* C21: in csrTest the output buffer is overwritten before any dispatch of
\* the vector kernel, and for every matrix and vector a first pass of the
\* vector kernel that leaves the buffer as it was (the read brings back
\* what was written over it) fails verification.
C21_StaleOutputGuard ==
    /\ [](pc = "dispatch" /\ kernel = "CSR-Vector" /\ dispatchCount[cfg]["CSR-Vector"] = 0
            => d_out = args[cfg].vec)
    /\ [][(pc = "verify" /\ kernel = "CSR-Vector" /\ k_pass = 0 /\ h_out = args[cfg].vec)
            => outcome'[cfg] = "failed"]_vars

C23_PlatformReadsInBounds ==
    /\ \A i \in m_reads : m_query = "ok" /\ i < m_numPlateforms
    /\ (m_query = "failed" \/ m_errNum = "error" \/ (m_query = "ok" /\ m_numPlateforms = 0))
        => /\ m_reads = {}
           /\ m_context = 0
           /\ m_pc \notin {"exited", "crashed"}

=============================================================================
